---------------------------- MODULE Spec2Model ----------------------------
(***************************************************************************)
(* The APR sampling engine of ssv-staking-apr-service:                     *)
(* AprCalculationService (delta-based variant), the CoinGecko price        *)
(* reader, the effective-balance reader, the apr_samples table and the     *)
(* read-only queries of AprController.                                     *)
(*                                                                         *)
(* Numbers.  A JavaScript number is modelled exactly: a finite value is    *)
(* the reduced fraction (n / d) * 10^e, and NaN and the infinities are     *)
(* values of their own.  Rounding and overflow of IEEE doubles are not     *)
(* modelled; the inputs are bounded so that every intermediate fits.       *)
(* A bigint is m * 10^e, exact.  Text is a sequence of one-character       *)
(* strings, so that formatting and parsing are real conversions.  A Date   *)
(* is a day number and the milliseconds of the day.                        *)
(*                                                                         *)
(* Calls.  collectAprSample and getCurrentApr are async: a call runs from  *)
(* one await to the next in a step, and the steps of calls in flight       *)
(* interleave.  The state holds the locals of every call in flight, and,   *)
(* for the state right after a step, the step taken and what the call      *)
(* returned if it ended there.                                             *)
(***************************************************************************)
EXTENDS Integers, Sequences, FiniteSets, Bags, TLC

----------------------------------------------------------------------------
(* Integer helpers *)

Abs(x) == IF x < 0 THEN -x ELSE x

Sign(x) == IF x < 0 THEN -1 ELSE IF x = 0 THEN 0 ELSE 1

Min(a, b) == IF a <= b THEN a ELSE b

RECURSIVE GCD(_, _)
GCD(a, b) == IF b = 0 THEN Abs(a) ELSE GCD(b, a % b)

RECURSIVE Pow10(_)
Pow10(k) == IF k <= 0 THEN 1 ELSE 10 * Pow10(k - 1)

\* floor(a / b) for b > 0 (TLA+'s \div floors, as Math.floor does)
FloorDiv(a, b) == a \div b

----------------------------------------------------------------------------
(* Text: sequences of one-character strings *)

DigitChar == <<"0", "1", "2", "3", "4", "5", "6", "7", "8", "9">>

IsDigit(c) == \E i \in 1..10 : DigitChar[i] = c

DigitVal(c) == (CHOOSE i \in 1..10 : DigitChar[i] = c) - 1

IsSpace(c) == c = " "

RECURSIVE Zeros(_)
Zeros(k) == IF k <= 0 THEN <<>> ELSE <<"0">> \o Zeros(k - 1)

\* decimal digits of a natural number, no leading zeros ("0" for 0)
RECURSIVE NatToText(_)
NatToText(x) ==
  IF x < 10 THEN <<DigitChar[x + 1]>>
  ELSE NatToText(x \div 10) \o <<DigitChar[(x % 10) + 1]>>

AllDigits(s) == \A i \in 1..Len(s) : IsDigit(s[i])

\* String.prototype.trim
RECURSIVE TrimLeft(_)
TrimLeft(s) == IF s # <<>> /\ IsSpace(Head(s)) THEN TrimLeft(Tail(s)) ELSE s

RECURSIVE TrimRight(_)
TrimRight(s) ==
  IF s # <<>> /\ IsSpace(s[Len(s)]) THEN TrimRight(SubSeq(s, 1, Len(s) - 1)) ELSE s

Trim(s) == TrimRight(TrimLeft(s))

\* position of the first c in s, 0 when there is none
IndexOf(s, c) ==
  IF \E i \in 1..Len(s) : s[i] = c
  THEN CHOOSE i \in 1..Len(s) : s[i] = c /\ \A j \in 1..(i - 1) : s[j] # c
  ELSE 0

RECURSIVE StripLeadingZeros(_)
StripLeadingZeros(s) ==
  IF Len(s) > 1 /\ Head(s) = "0" THEN StripLeadingZeros(Tail(s)) ELSE s

RECURSIVE TrailingZeros(_)
TrailingZeros(s) ==
  IF s # <<>> /\ s[Len(s)] = "0" THEN 1 + TrailingZeros(SubSeq(s, 1, Len(s) - 1)) ELSE 0

\* value of a short run of digits
RECURSIVE DigitsToNat(_)
DigitsToNat(s) ==
  IF s = <<>> THEN 0 ELSE 10 * DigitsToNat(SubSeq(s, 1, Len(s) - 1)) + DigitVal(s[Len(s)])

----------------------------------------------------------------------------
(* JavaScript number | null *)

Null == [k |-> "null", n |-> 0, d |-> 1, e |-> 0]

NaN == [k |-> "nan", n |-> 0, d |-> 1, e |-> 0]

Inf(s) == [k |-> "inf", n |-> s, d |-> 1, e |-> 0]

RECURSIVE StripTens(_, _, _)
StripTens(n, d, e) ==
  IF n % 10 = 0 THEN StripTens(n \div 10, d, e + 1)
  ELSE [k |-> "fin", n |-> n, d |-> d, e |-> e]

RECURSIVE ClearDen(_, _, _)
ClearDen(n, d, e) ==
  IF d % 10 = 0 THEN ClearDen(n, d \div 10, e - 1)
  ELSE IF d % 2 = 0 THEN ClearDen(n * 5, d \div 2, e - 1)
  ELSE IF d % 5 = 0 THEN ClearDen(n * 2, d \div 5, e - 1)
  ELSE StripTens(n, d, e)

\* the canonical form of (n / d) * 10^e, d > 0: gcd(n, d) = 1, d coprime to 10,
\* n not a multiple of 10
Fin(n, d, e) ==
  IF n = 0 THEN [k |-> "fin", n |-> 0, d |-> 1, e |-> 0]
  ELSE LET g == GCD(n, d) IN ClearDen(n \div g, d \div g, e)

IntNum(i) == Fin(i, 1, 0)

\* Number.isFinite
IsFinite(x) == x.k = "fin"

NumSign(x) == IF x.k = "nan" THEN 0 ELSE Sign(x.n)

\* a * b
Mul(a, b) ==
  IF a.k = "nan" \/ b.k = "nan" THEN NaN
  ELSE IF a.k = "inf" \/ b.k = "inf"
       THEN IF a.n = 0 \/ b.n = 0 THEN NaN ELSE Inf(Sign(a.n) * Sign(b.n))
  ELSE IF a.n = 0 \/ b.n = 0 THEN Fin(0, 1, 0)
  ELSE LET g1 == GCD(a.n, b.d)
           g2 == GCD(b.n, a.d)
       IN Fin((a.n \div g1) * (b.n \div g2), (a.d \div g2) * (b.d \div g1), a.e + b.e)

\* a / b
Div(a, b) ==
  IF a.k = "nan" \/ b.k = "nan" THEN NaN
  ELSE IF a.k = "inf" THEN (IF b.k = "inf" THEN NaN
                            ELSE Inf(a.n * (IF b.n < 0 THEN -1 ELSE 1)))
  ELSE IF b.k = "inf" THEN Fin(0, 1, 0)
  ELSE IF b.n = 0 THEN (IF a.n = 0 THEN NaN ELSE Inf(Sign(a.n)))
  ELSE Mul(a, [k |-> "fin", n |-> Sign(b.n) * b.d, d |-> Abs(b.n), e |-> -b.e])

\* x <= 0 (false for NaN)
\* a comparison left out
NoCheck(x) == FALSE

LeqZero(x) == x.k # "nan" /\ x.n <= 0

\* x > 0 (false for NaN)
GtZero(x) == x.k # "nan" /\ x.n > 0


\* toFixed(4), as the log lines of collectAprSample have it
toFixed4(x) ==
  IF x.k = "nan" THEN <<"N", "a", "N">>
  ELSE IF x.k = "inf"
       THEN (IF x.n < 0 THEN <<"-">> ELSE <<>>) \o <<"I", "n", "f", "i", "n", "i", "t", "y">>
  ELSE LET a   == Abs(x.n)
           num == IF x.e + 4 >= 0 THEN a * Pow10(x.e + 4) ELSE a
           den == IF x.e + 4 >= 0 THEN x.d ELSE x.d * Pow10(-(x.e + 4))
           N   == (2 * num + den) \div (2 * den)
           dg  == NatToText(N)
           pad == IF Len(dg) < 5 THEN Zeros(5 - Len(dg)) \o dg ELSE dg
       IN (IF x.n < 0 THEN <<"-">> ELSE <<>>)
          \o SubSeq(pad, 1, Len(pad) - 4) \o <<".">> \o SubSeq(pad, Len(pad) - 3, Len(pad))

\* Number.prototype.toFixed(2): the nearest multiple of 0.01, a tie going away
\* from zero, written with exactly two fractional digits
toFixed2(x) ==
  IF x.k = "nan" THEN <<"N", "a", "N">>
  ELSE IF x.k = "inf"
       THEN (IF x.n < 0 THEN <<"-">> ELSE <<>>) \o <<"I", "n", "f", "i", "n", "i", "t", "y">>
  ELSE LET a   == Abs(x.n)
           num == IF x.e + 2 >= 0 THEN a * Pow10(x.e + 2) ELSE a
           den == IF x.e + 2 >= 0 THEN x.d ELSE x.d * Pow10(-(x.e + 2))
           N   == (2 * num + den) \div (2 * den)
           dg  == NatToText(N)
           pad == IF Len(dg) < 3 THEN Zeros(3 - Len(dg)) \o dg ELSE dg
       IN (IF x.n < 0 THEN <<"-">> ELSE <<>>)
          \o SubSeq(pad, 1, Len(pad) - 2) \o <<".">> \o SubSeq(pad, Len(pad) - 1, Len(pad))

\* Number.prototype.toString of a number read from JSON (a finite decimal,
\* d = 1), of NaN and of the infinities
NumberToString(x) ==
  IF x.k = "nan" THEN <<"N", "a", "N">>
  ELSE IF x.k = "inf"
       THEN (IF x.n < 0 THEN <<"-">> ELSE <<>>) \o <<"I", "n", "f", "i", "n", "i", "t", "y">>
  ELSE LET dg == NatToText(Abs(x.n))
           f  == -x.e
           body == IF x.e >= 0 THEN (IF x.n = 0 THEN dg ELSE dg \o Zeros(x.e))
                   ELSE IF Len(dg) <= f THEN <<"0", ".">> \o Zeros(f - Len(dg)) \o dg
                   ELSE SubSeq(dg, 1, Len(dg) - f) \o <<".">> \o SubSeq(dg, Len(dg) - f + 1, Len(dg))
       IN (IF x.n < 0 THEN <<"-">> ELSE <<>>) \o body

\* Number(text): StringToNumber for decimal literals without an exponent;
\* blank text is 0, anything that is no numeric literal is NaN
StringToNumber(s) ==
  LET t    == Trim(s)
      neg  == t # <<>> /\ Head(t) = "-"
      u    == IF t # <<>> /\ Head(t) \in {"-", "+"} THEN Tail(t) ELSE t
      p    == IndexOf(u, ".")
      w    == IF p = 0 THEN u ELSE SubSeq(u, 1, p - 1)
      fr   == IF p = 0 THEN <<>> ELSE SubSeq(u, p + 1, Len(u))
      sg   == IF neg THEN -1 ELSE 1
  IN IF t = <<>> THEN Fin(0, 1, 0)
     ELSE IF u = <<"I", "n", "f", "i", "n", "i", "t", "y">> THEN Inf(sg)
     ELSE IF AllDigits(w) /\ AllDigits(fr) /\ Len(w) + Len(fr) >= 1
          THEN Fin(sg * DigitsToNat(w \o fr), 1, -Len(fr))
     ELSE NaN

----------------------------------------------------------------------------
(* bigint: m * 10^e, m not a multiple of 10 unless it is 0 *)

RECURSIVE BigStrip(_, _)
BigStrip(m, e) == IF m % 10 = 0 THEN BigStrip(m \div 10, e + 1) ELSE [m |-> m, e |-> e]

Big(m, e) == IF m = 0 THEN [m |-> 0, e |-> 0] ELSE BigStrip(m, e)

\* a - b
BigSub(a, b) ==
  LET lo == Min(a.e, b.e)
  IN Big(a.m * Pow10(a.e - lo) - b.m * Pow10(b.e - lo), lo)

\* x < 0n
BigLtZero(x) == x.m < 0

\* x <= 0n
BigLeqZero(x) == x.m <= 0

\* bigint.toString()
BigToString(x) ==
  (IF x.m < 0 THEN <<"-">> ELSE <<>>) \o NatToText(Abs(x.m)) \o Zeros(x.e)

\* Number(bigint)
BigToNumber(x) == Fin(x.m, 1, x.e)

\* BigInt(text) for a run of decimal digits
BigFromDigits(s) ==
  LET t  == StripLeadingZeros(s)
      tz == TrailingZeros(t)
  IN IF t = <<"0">> THEN Big(0, 0)
     ELSE [m |-> DigitsToNat(SubSeq(t, 1, Len(t) - tz)), e |-> tz]

----------------------------------------------------------------------------
(* Date: dn days since 1970-01-01 (UTC) and ms milliseconds into the day *)

MkDate(dn, ms) == [dn |-> dn + (ms \div 86400000), ms |-> ms % 86400000]

DateLT(a, b) == a.dn < b.dn \/ (a.dn = b.dn /\ a.ms < b.ms)

DateLE(a, b) == a = b \/ DateLT(a, b)

\* Math.round((a.getTime() - b.getTime()) / 1000)
RoundSecondsBetween(a, b) ==
  (a.dn - b.dn) * 86400 + FloorDiv(a.ms - b.ms + 500, 1000)

\* Math.floor((a.getTime() - b.getTime()) / 1000); whole days are a multiple
\* of 1000 ms, so the floor falls on the milliseconds of the day alone
FloorSecondsBetween(a, b) ==
  (a.dn - b.dn) * 86400 + FloorDiv(a.ms - b.ms, 1000)

\* Math.floor(Date.now() / 1000)
EpochSeconds(t) == t.dn * 86400 + FloorDiv(t.ms, 1000)

\* the day number of the first day of month mo (1..12) of year y, plus d - 1
\* (ECMAScript MakeDay: a day past the end of the month runs into the next)
DaysFromCivil(y, mo, d) ==
  LET yy  == IF mo <= 2 THEN y - 1 ELSE y
      era == yy \div 400
      yoe == yy - era * 400
      mp  == IF mo > 2 THEN mo - 3 ELSE mo + 9
      doy == (153 * mp + 2) \div 5 + d - 1
      doe == yoe * 365 + yoe \div 4 - yoe \div 100 + doy
  IN era * 146097 + doe - 719468

\* year, month and day of the month of a day number
CivilFromDays(dn) ==
  LET z   == dn + 719468
      era == z \div 146097
      doe == z - era * 146097
      yoe == (doe - doe \div 1460 + doe \div 36524 - doe \div 146096) \div 365
      doy == doe - (365 * yoe + yoe \div 4 - yoe \div 100)
      mp  == (5 * doy + 2) \div 153
      d   == doy - (153 * mp + 2) \div 5 + 1
      mo  == IF mp < 10 THEN mp + 3 ELSE mp - 9
  IN [y |-> yoe + era * 400 + (IF mo <= 2 THEN 1 ELSE 0), mo |-> mo, d |-> d]

\* d.setFullYear(d.getFullYear() - 1): the same month, day and time of day one
\* calendar year earlier (29 February runs into 1 March)
SetFullYearMinusOne(t) ==
  LET c == CivilFromDays(t.dn)
  IN [dn |-> DaysFromCivil(c.y - 1, c.mo, 1) + c.d - 1, ms |-> t.ms]

----------------------------------------------------------------------------
(* AprSample: the entity and the apr_samples table *)

\* a null column value; no text has an element longer than one character
TextNull == <<"null">>

TextInfinity == <<"I", "n", "f", "i", "n", "i", "t", "y">>

\* what a numeric(p, scale) column gives back for a decimal literal written to
\* it: the value with exactly `scale` fractional digits (the literals the model
\* writes have at most `scale` of them); NaN is a value of the type
NumericColumn(text, scale) ==
  IF text = TextNull \/ ~IsDigit(text[Len(text)]) THEN text
  ELSE LET p  == IndexOf(text, ".")
           fr == IF p = 0 THEN 0 ELSE Len(text) - p
       IN (IF p = 0 THEN text \o <<".">> ELSE text) \o Zeros(scale - fr)

\* a numeric(p, s) column takes no infinity
NumericColumnAccepts(text) ==
  text # TextInfinity /\ text # <<"-">> \o TextInfinity

\* the row as later reads return it: every numeric column in its column's scale
Persisted(sample) ==
  [timestamp |-> sample.timestamp,
   accEthPerShare |-> NumericColumn(sample.accEthPerShare, 18),
   ethPrice |-> NumericColumn(sample.ethPrice, 8),
   ssvPrice |-> NumericColumn(sample.ssvPrice, 8),
   currentApr |-> NumericColumn(sample.currentApr, 2),
   aprProjected |-> NumericColumn(sample.aprProjected, 2),
   deltaIndex |-> NumericColumn(sample.deltaIndex, 18),
   deltaTime |-> sample.deltaTime]

\* a table without the constraint
NeverTaken(rows, ts) == FALSE

\* the unique constraint on "timestamp"
TimestampTaken(rows, ts) == \E r \in rows : r.timestamp = ts

\* aprSampleRepository.save of a new entity: the INSERT is refused when the
\* timestamp is taken or a column cannot hold its value
InsertRefused(rows, sample) ==
  \/ TimestampTaken(rows, sample.timestamp)
  \/ ~NumericColumnAccepts(sample.ethPrice)
  \/ ~NumericColumnAccepts(sample.ssvPrice)

\* a save that keeps the new row alone
InsertRowKeepLatest(rows, sample) == {Persisted(sample)}

InsertRow(rows, sample) == rows \cup {Persisted(sample)}

\* rows ordered by timestamp DESC
RECURSIVE OrderByTimestampDesc(_)
OrderByTimestampDesc(rows) ==
  IF rows = {} THEN <<>>
  ELSE LET top == CHOOSE r \in rows : \A q \in rows : DateLE(q.timestamp, r.timestamp)
       IN <<top>> \o OrderByTimestampDesc(rows \ {top})

Take(seq, k) == SubSeq(seq, 1, Min(k, Len(seq)))

\* a findOne with order: {timestamp: 'ASC'}
getOldestSample(rows) ==
  {r \in rows : \A q \in rows : DateLE(r.timestamp, q.timestamp)}

\* getLatestSample: findOne({order: {timestamp: 'DESC'}}); the set is empty for
\* null
getLatestSample(rows) ==
  {r \in rows : \A q \in rows : DateLE(q.timestamp, r.timestamp)}

\* a query with take: 1
getLatestOneSample(rows) == Take(OrderByTimestampDesc(rows), 1)

\* getLatestTwoSamples
getLatestTwoSamples(rows) == Take(OrderByTimestampDesc(rows), 2)

\* a date parameter of a query: Undefined for none, else a Date
NoDateGiven == [dn |-> -2, ms |-> 0]

\* getHistoricalSamples
getHistoricalSamples(rows, limit, startDate, endDate) ==
  Take(OrderByTimestampDesc(
         {r \in rows : /\ startDate # NoDateGiven => DateLE(startDate, r.timestamp)
                       /\ endDate # NoDateGiven => DateLE(r.timestamp, endDate)}),
       limit)

----------------------------------------------------------------------------
(* AprCalculationService: the formulas *)

SECONDS_PER_YEAR == 31536000

\* 1e9
OneGwei == Fin(1, 1, 9)

\* the 1e18 of Number(deltaIndex) / 1e18
OneEther == Fin(1, 1, 18)

\* a parse that drops the point and reads every digit
parseWeiAllDigits(value) ==
  LET trimmed == Trim(value)
      p       == IndexOf(trimmed, ".")
      digits  == IF p = 0 THEN trimmed
                 ELSE SubSeq(trimmed, 1, p - 1) \o SubSeq(trimmed, p + 1, Len(trimmed))
  IN IF Len(digits) >= 1 /\ AllDigits(digits)
     THEN [ok |-> TRUE, value |-> BigFromDigits(digits)]
     ELSE [ok |-> FALSE, value |-> Big(0, 0)]

\* a parse that takes a sign before the digits
parseWeiSigned(value) ==
  LET trimmed  == Trim(value)
      negative == Len(trimmed) >= 1 /\ Head(trimmed) = "-"
      unsigned == IF negative THEN Tail(trimmed) ELSE trimmed
      p        == IndexOf(unsigned, ".")
      whole    == IF p = 0 THEN unsigned ELSE SubSeq(unsigned, 1, p - 1)
      frac     == IF p = 0 THEN <<>> ELSE SubSeq(unsigned, p + 1, Len(unsigned))
      matches  == /\ Len(whole) >= 1
                  /\ AllDigits(whole)
                  /\ (p # 0 => Len(frac) >= 1 /\ AllDigits(frac))
      digits   == BigFromDigits(whole)
  IN IF matches
     THEN [ok |-> TRUE, value |-> IF negative THEN Big(-digits.m, digits.e) ELSE digits]
     ELSE [ok |-> FALSE, value |-> Big(0, 0)]

\* parseWeiFromNumeric: ok = FALSE stands for the thrown Error
parseWeiFromNumeric(value) ==
  LET trimmed == Trim(value)
      p       == IndexOf(trimmed, ".")
      whole   == IF p = 0 THEN trimmed ELSE SubSeq(trimmed, 1, p - 1)
      frac    == IF p = 0 THEN <<>> ELSE SubSeq(trimmed, p + 1, Len(trimmed))
      matches == /\ Len(whole) >= 1
                 /\ AllDigits(whole)
                 /\ (p # 0 => Len(frac) >= 1 /\ AllDigits(frac))
  IN IF matches THEN [ok |-> TRUE, value |-> BigFromDigits(whole)]
     ELSE [ok |-> FALSE, value |-> Big(0, 0)]

\* a result of zero in place of null
ZeroApr == [apr |-> IntNum(0), deltaIndex |-> <<"0">>, deltaTime |-> IntNum(0)]

NullApr == [apr |-> Null, deltaIndex |-> TextNull, deltaTime |-> Null]

\* computeApr reads the store only when both prices are finite
ReadsLatest(priceEth, priceSsv) == IsFinite(priceEth) /\ IsFinite(priceSsv)

\* a computeApr that keeps the deltas when the product is not finite
computeAprKeepsDeltas(accEthPerShare, priceEth, priceSsv, timestamp, latest) ==
  IF ~IsFinite(priceEth) \/ ~IsFinite(priceSsv) \/ latest = {} THEN NullApr
  ELSE
    LET latestSample == CHOOSE r \in latest : TRUE
        previous     == parseWeiFromNumeric(latestSample.accEthPerShare)
        deltaIndex   == BigSub(accEthPerShare, previous.value)
        deltaTimeSeconds == FloorSecondsBetween(timestamp, latestSample.timestamp)
        apr == Mul(Mul(Mul(Div(Div(BigToNumber(deltaIndex), OneEther),
                               IntNum(deltaTimeSeconds)),
                           IntNum(SECONDS_PER_YEAR)),
                       Div(priceEth, priceSsv)), IntNum(100))
    IN IF ~previous.ok \/ BigLeqZero(deltaIndex) \/ deltaTimeSeconds <= 0 THEN NullApr
       ELSE [apr |-> IF IsFinite(apr) THEN apr ELSE Null,
             deltaIndex |-> BigToString(deltaIndex),
             deltaTime |-> IntNum(deltaTimeSeconds)]

\* computeApr (delta-based); latest is what getLatestSample returned
computeApr(accEthPerShare, priceEth, priceSsv, timestamp, latest) ==
  IF ~IsFinite(priceEth) \/ ~IsFinite(priceSsv) THEN NullApr
  ELSE IF latest = {} THEN NullApr
  ELSE
    LET latestSample == CHOOSE r \in latest : TRUE
        previous     == parseWeiFromNumeric(latestSample.accEthPerShare)
    IN IF ~previous.ok THEN NullApr
       ELSE
         LET deltaIndex == BigSub(accEthPerShare, previous.value)
         IN IF BigLeqZero(deltaIndex) THEN NullApr
            ELSE
              LET deltaTimeSeconds ==
                    FloorSecondsBetween(timestamp, latestSample.timestamp)
              IN IF deltaTimeSeconds <= 0 THEN NullApr
                 ELSE
                   LET priceRatio    == Div(priceEth, priceSsv)
                       deltaIndexEth == Div(BigToNumber(deltaIndex), OneEther)
                       ratePerSecond == Div(deltaIndexEth, IntNum(deltaTimeSeconds))
                       apr == Mul(Mul(Mul(ratePerSecond, IntNum(SECONDS_PER_YEAR)),
                                      priceRatio), IntNum(100))
                   IN IF ~IsFinite(apr) THEN NullApr
                      ELSE [apr |-> apr,
                            deltaIndex |-> BigToString(deltaIndex),
                            deltaTime |-> IntNum(deltaTimeSeconds)]

\* computeAprProjected
computeAprProjected(apr, clustersEffectiveBalance, validatorsEffectiveBalance) ==
  IF apr = Null THEN Null
  ELSE
    LET clusters   == StringToNumber(clustersEffectiveBalance)
        validators == StringToNumber(validatorsEffectiveBalance)
    IN IF ~IsFinite(clusters) \/ ~IsFinite(validators) THEN Null
       ELSE IF LeqZero(validators) THEN Null
       ELSE LET ratio     == Div(clusters, validators)
                projected == Mul(apr, ratio)
            IN IF ~IsFinite(projected) THEN Null ELSE projected

----------------------------------------------------------------------------
(* Bounds and inputs *)

\* calls of collectAprSample and getCurrentApr that may be in flight together
NumProcs == 2

\* calls of collectAprSample started in a behaviour
MaxCollects == 2

\* calls of getCurrentApr that may be in flight together
MaxCurrent == 1

\* the clock moves in steps of TickMs milliseconds, MaxTicks of them, and then
\* maybe by days, to at most MaxDays past the first day, between two calls
TickMs == 500

MaxTicks == 2

MaxDays == 366

DayJumps == {365, 366}

\* 2024-02-29T00:00:00.000Z
StartDate == [dn |-> DaysFromCivil(2024, 2, 29), ms |-> 0]

NoDate == [dn |-> -1, ms |-> 0]

\* the query parameters tried
NoParam == [kind |-> "none", date |-> NoDateGiven]

BadParam == [kind |-> "invalid", date |-> NoDateGiven]

DateParam(ms) == [kind |-> "date", date |-> MkDate(StartDate.dn, ms)]

\* the limit parameter of a query: the empty set for none, else the number
NoLimit == {}

HistoryQueries ==
  {<<NoLimit, NoParam, NoParam>>,
   <<{0}, NoParam, NoParam>>,
   <<{1}, NoParam, NoParam>>,
   <<NoLimit, DateParam(TickMs), NoParam>>,
   <<NoLimit, NoParam, DateParam(TickMs)>>,
   <<NoLimit, BadParam, NoParam>>,
   <<NoLimit, DateParam(0), BadParam>>}

\* what the Views contract's accEthPerShare() call may end with
IndexResponses ==
  {[ok |-> FALSE, value |-> Big(0, 0)],
   [ok |-> TRUE, value |-> Big(1, 11)],
   [ok |-> TRUE, value |-> Big(2, 11)]}

\* typeof x !== 'number'
Undefined == [k |-> "undefined", n |-> 0, d |-> 1, e |-> 0]

\* what GET /simple/price may end with: a network error, or a body whose two
\* usd fields are numbers or missing
PriceResponses ==
  {[ok |-> FALSE, eth |-> Undefined, ssv |-> Undefined],
   [ok |-> TRUE, eth |-> Fin(3, 1, 3), ssv |-> Undefined],
   [ok |-> TRUE, eth |-> Fin(3, 1, 3), ssv |-> Fin(7, 1, 0)],
   [ok |-> TRUE, eth |-> Fin(3, 1, 3), ssv |-> Fin(0, 1, 0)],
   [ok |-> TRUE, eth |-> Inf(1), ssv |-> Fin(7, 1, 0)]}

\* what an effective-balance call may end with: an error, or a string
ClustersResponses ==
  {[ok |-> FALSE, value |-> <<>>],
   [ok |-> TRUE, value |-> <<"1", "6">>]}

ValidatorsResponses ==
  {[ok |-> FALSE, value |-> <<>>],
   [ok |-> TRUE, value |-> <<"6", "4">>],
   [ok |-> TRUE, value |-> <<"0">>]}

----------------------------------------------------------------------------
(* Feeds *)

\* the prices as the body has them, number or not
getSpotPricesUnchecked(resp) ==
  IF ~resp.ok THEN [ok |-> FALSE, ethPrice |-> Null, ssvPrice |-> Null]
  ELSE [ok |-> TRUE, ethPrice |-> resp.eth, ssvPrice |-> resp.ssv]

\* CoinGeckoService.getPrices / getSpotPrices: ok = FALSE stands for the
\* rethrown error
getSpotPrices(resp) ==
  IF ~resp.ok THEN [ok |-> FALSE, ethPrice |-> Null, ssvPrice |-> Null]
  ELSE IF resp.eth = Undefined \/ resp.ssv = Undefined
       THEN [ok |-> FALSE, ethPrice |-> Null, ssvPrice |-> Null]
  ELSE [ok |-> TRUE, ethPrice |-> resp.eth, ssvPrice |-> resp.ssv]

\* BlockchainService.getAccEthPerShare: throws when the contract handle was
\* never set, else what the contract call ends with
getAccEthPerShare(contractSet, resp) ==
  IF ~contractSet THEN [ok |-> FALSE, value |-> Big(0, 0)] ELSE resp

\* balance calls whatever the apr
AlwaysCallsBalances(apr) == TRUE

\* getProjectedApr: no balance call for a null apr; a failed call is caught
CallsBalances(apr) == apr # Null

getProjectedApr(apr, clustersResp, validatorsResp) ==
  IF apr = Null THEN Null
  ELSE IF ~clustersResp.ok \/ ~validatorsResp.ok THEN Null
  ELSE computeAprProjected(apr, clustersResp.value, validatorsResp.value)

----------------------------------------------------------------------------
(* State *)

VARIABLES
  boot,           \* "constructed" until onModuleInit has run, then "ready"
  viewsContract,  \* BlockchainService.viewsContract is set
  now,            \* the wall clock
  store,          \* the rows of apr_samples
  cycle,          \* the bag of calls of collectAprSample and getCurrentApr in flight, each by its
                  \* locals (latest: what its getLatestSample returned, the empty set for null)
  returned,       \* the step a call has just taken, and what the call returned if it ended there
  collects        \* the number of collectAprSample calls started so far

vars == <<boot, viewsContract, now, store, cycle, returned, collects>>

NoCalls == [index |-> 0, price |-> 0, read |-> 0, clusters |-> 0, validators |-> 0, insert |-> 0]

\* getCurrentApr's null
NoResponse == [null |-> TRUE, apr |-> Null, aprProjected |-> Null, lastUpdated |-> 0]

IdleCycle ==
  [op |-> "none", pc |-> "idle",
   accEthPerShare |-> Big(0, 0),
   prices |-> [ethPrice |-> Null, ssvPrice |-> Null],
   timestamp |-> NoDate,
   latest |-> {},
   aprResult |-> NullApr,
   aprProjected |-> Null,
   balancesFailed |-> FALSE,
   abandoned |-> FALSE,
   calls |-> NoCalls]

\* a query's parameters, as getHistory takes them
NoQuery == [limit |-> NoLimit, startDate |-> NoParam, endDate |-> NoParam]

\* no HTTP answer
NoBody == [none |-> TRUE]

\* step: the step just taken, c: the call's locals after it, before: the table
\* as the step found it; op: the call that returned in it, outcome: "ok", or
\* "error" for a thrown error, failed: what failed in the step ("index",
\* "price", "read", "insert"); saved: the entity save() gave back; response:
\* getCurrentApr's value; rows: a query's; query: the parameters of the
\* request; status and body: what the endpoint answers (status 0 for none)
NoReturn ==
  [step |-> "none", op |-> "none", outcome |-> "none", failed |-> {},
   c |-> IdleCycle, before |-> {}, saved |-> {},
   response |-> NoResponse, rows |-> <<>>,
   query |-> NoQuery, status |-> 0, body |-> NoBody]

\* an entity whose currentApr is null whenever its aprProjected is
SampleOfDropsApr(c) ==
  [timestamp |-> c.timestamp,
   accEthPerShare |-> BigToString(c.accEthPerShare),
   ethPrice |-> NumberToString(c.prices.ethPrice),
   ssvPrice |-> NumberToString(c.prices.ssvPrice),
   currentApr |-> IF c.aprProjected # Null THEN toFixed2(c.aprResult.apr) ELSE TextNull,
   aprProjected |-> IF c.aprProjected # Null THEN toFixed2(c.aprProjected) ELSE TextNull,
   deltaIndex |-> c.aprResult.deltaIndex,
   deltaTime |-> c.aprResult.deltaTime]

\* the entity collectAprSample creates from its locals
SampleOf(c) ==
  [timestamp |-> c.timestamp,
   accEthPerShare |-> BigToString(c.accEthPerShare),
   ethPrice |-> NumberToString(c.prices.ethPrice),
   ssvPrice |-> NumberToString(c.prices.ssvPrice),
   currentApr |-> IF c.aprResult.apr # Null THEN toFixed2(c.aprResult.apr) ELSE TextNull,
   aprProjected |-> IF c.aprProjected # Null THEN toFixed2(c.aprProjected) ELSE TextNull,
   deltaIndex |-> c.aprResult.deltaIndex,
   deltaTime |-> c.aprResult.deltaTime]

\* the table outlives the process: at construction it is empty, or holds what
\* an earlier run left, here the first sample of one, taken a day before
EarlierSample ==
  Persisted(SampleOf([IdleCycle EXCEPT
    !.accEthPerShare = Big(1, 11),
    !.prices = [ethPrice |-> Fin(3, 1, 3), ssvPrice |-> Fin(7, 1, 0)],
    !.timestamp = MkDate(StartDate.dn - 1, 0)]))

InitialStores == {{}, {EarlierSample}}

Init ==
  /\ boot = "constructed"
  /\ viewsContract = FALSE
  /\ now = StartDate
  /\ store \in InitialStores
  /\ cycle = EmptyBag
  /\ returned = NoReturn
  /\ collects = 0

----------------------------------------------------------------------------
(* Steps of a cycle.  Each step runs a call from one await to the next; a    *)
(* step NextOf(...) gives the slot's locals after it, with pc = "done" when  *)
(* the call returns in it.                                                   *)

\* a lastUpdated rounded to the nearest second
ResponseOfRounds(c, t) ==
  [null |-> FALSE, apr |-> c.aprResult.apr, aprProjected |-> c.aprProjected,
   lastUpdated |-> t.dn * 86400 + FloorDiv(t.ms + 500, 1000)]

\* getCurrentApr's return value
ResponseOf(c, t) ==
  [null |-> FALSE, apr |-> c.aprResult.apr, aprProjected |-> c.aprProjected,
   lastUpdated |-> EpochSeconds(t)]

\* a getProjectedApr that asks both balance feeds again after a failure
AfterProjectionRetry(c, projected) ==
  IF c.balancesFailed
  THEN [c EXCEPT !.balancesFailed = FALSE, !.pc = "balances",
                 !.calls.clusters = @ + 1, !.calls.validators = @ + 1]
  ELSE [c EXCEPT !.aprProjected = projected,
                 !.pc = IF c.op = "collect" THEN "saving" ELSE "done"]

\* after getProjectedApr: collectAprSample goes on to save, getCurrentApr returns
AfterProjection(c, projected) ==
  [c EXCEPT !.aprProjected = projected,
            !.pc = IF c.op = "collect" THEN "saving" ELSE "done"]

\* after computeApr: getProjectedApr starts both balance calls for a non-null
\* apr, and returns null at once for a null one
AfterCompute(c, aprResult) ==
  LET c1 == [c EXCEPT !.aprResult = aprResult]
  IN IF CallsBalances(aprResult.apr)
     THEN [c1 EXCEPT !.pc = "balances", !.calls.clusters = @ + 1,
                     !.calls.validators = @ + 1]
     ELSE AfterProjection(c1, Null)

\* AprController.getCurrentApr: the body of GET /apr/current for what the
\* service returned
CurrentBody(apr) ==
  IF apr.null
  THEN [currentApr |-> Null, aprProjected |-> Null,
        message |-> "No APR data available yet. Please wait for the first sample collection."]
  ELSE [apr |-> apr.apr, aprProjected |-> apr.aprProjected, lastUpdated |-> apr.lastUpdated]

\* getCurrentApr from its first line to its return, for what its calls end
\* with, the table it reads, and the clock when computeApr is called (started)
\* and when the response is made (finished)
getCurrentApr(contractSet, indexResp, priceResp, rows, clustersResp, validatorsResp, started, finished) ==
  LET index == getAccEthPerShare(contractSet, indexResp)
      price == getSpotPrices(priceResp)
  IN IF ~index.ok \/ ~price.ok THEN NoResponse
     ELSE LET aprResult    == computeApr(index.value, price.ethPrice, price.ssvPrice,
                                         started, getLatestSample(rows))
              aprProjected == getProjectedApr(aprResult.apr, clustersResp, validatorsResp)
          IN ResponseOf([IdleCycle EXCEPT !.aprResult = aprResult,
                                          !.aprProjected = aprProjected],
                        finished)

\* a getCurrentApr that rethrows what it caught, as collectAprSample does
ReturnOfRethrows(step, c, failed, saved, t) ==
  [step |-> step, op |-> c.op,
   outcome |-> IF failed # {} THEN "error" ELSE "ok",
   failed |-> failed,
   c |-> c, before |-> store, saved |-> saved,
   response |-> IF c.op = "current" /\ failed = {} THEN ResponseOf(c, t) ELSE NoResponse,
   rows |-> <<>>,
   query |-> NoQuery,
   status |-> IF c.op # "current" THEN 0 ELSE IF failed # {} THEN 500 ELSE 200,
   body |-> IF c.op = "current" /\ failed = {}
            THEN CurrentBody(ResponseOf(c, t)) ELSE NoBody]

\* what a call that ends in this step hands to its caller: collectAprSample
\* the saved entity or the rethrown error, getCurrentApr its response or null,
\* which the controller turns into the answer of GET /apr/current
ReturnOf(step, c, failed, saved, t) ==
  LET response == IF c.op = "current" /\ failed = {} THEN ResponseOf(c, t) ELSE NoResponse
  IN [step |-> step, op |-> c.op,
      outcome |-> IF c.op = "collect" /\ failed # {} THEN "error" ELSE "ok",
      failed |-> failed,
      c |-> c, before |-> store, saved |-> saved,
      response |-> response,
      rows |-> <<>>,
      query |-> NoQuery,
      status |-> IF c.op = "current" THEN 200 ELSE 0,
      body |-> IF c.op = "current" THEN CurrentBody(response) ELSE NoBody]

\* a step takes the call with locals c to locals c2, or ends it there
Settle(step, c, c2, failed, saved) ==
  IF c2.pc = "done"
  THEN /\ cycle' = cycle (-) SetToBag({c})
       /\ returned' = ReturnOf(step, c2, failed, saved, now)
  ELSE /\ cycle' = (cycle (-) SetToBag({c})) (+) SetToBag({c2})
       /\ returned' = [NoReturn EXCEPT !.step = step, !.c = c2, !.before = store]

\* an onModuleInit that is run again while the contract handle is not set
OnModuleInitAgain(ok) ==
  /\ boot = "constructed" \/ ~viewsContract
  /\ boot' = "ready"
  /\ viewsContract' = ok
  /\ returned' = NoReturn
  /\ UNCHANGED <<now, store, cycle, collects>>

\* BlockchainService.onModuleInit: sets the contract handle, or logs and returns
OnModuleInit(ok) ==
  /\ boot = "constructed"
  /\ boot' = "ready"
  /\ viewsContract' = ok
  /\ returned' = NoReturn
  /\ UNCHANGED <<now, store, cycle, collects>>

\* a call that asks for the index and awaits it before it asks for the prices
StartSequential(op) ==
  /\ boot = "ready"
  /\ BagCardinality(cycle) < NumProcs
  /\ op = "collect" => collects < MaxCollects
  /\ op = "current" =>
       Cardinality({c \in BagToSet(cycle) : c.op = "current"}) < MaxCurrent
  /\ collects' = IF op = "collect" THEN collects + 1 ELSE collects
  /\ cycle' = cycle (+) SetToBag({[IdleCycle EXCEPT !.op = op, !.pc = "fetching",
                                                     !.calls.index = 1]})
  /\ returned' = NoReturn
  /\ UNCHANGED <<boot, viewsContract, now, store>>

\* collectAprSample / getCurrentApr up to their first await: both feed calls
\* are started
Start(op) ==
  /\ boot = "ready"
  /\ BagCardinality(cycle) < NumProcs
  /\ op = "collect" => collects < MaxCollects
  /\ op = "current" =>
       Cardinality({c \in BagToSet(cycle) : c.op = "current"}) < MaxCurrent
  /\ collects' = IF op = "collect" THEN collects + 1 ELSE collects
  /\ cycle' = cycle (+) SetToBag({[IdleCycle EXCEPT !.op = op, !.pc = "fetching",
                                                     !.calls.index = 1, !.calls.price = 1]})
  /\ returned' = NoReturn
  /\ UNCHANGED <<boot, viewsContract, now, store>>

\* Promise.all([getAccEthPerShare(), getPrices()]) settles; on success the
\* timestamp is taken and computeApr runs up to its await of getLatestSample
FetchDone(c, indexResp, priceResp) ==
  /\ c.pc = "fetching"
  /\ viewsContract \/ ~indexResp.ok
  /\ LET index == getAccEthPerShare(viewsContract, indexResp)
         price == getSpotPrices(priceResp)
         c1    == [c EXCEPT !.accEthPerShare = index.value,
                            !.prices = [ethPrice |-> price.ethPrice,
                                        ssvPrice |-> price.ssvPrice],
                            !.timestamp = now]
     IN IF ~index.ok \/ ~price.ok
        THEN Settle("FetchDone", c, [c EXCEPT !.pc = "done"],
                    (IF index.ok THEN {} ELSE {"index"}) \cup
                    (IF price.ok THEN {} ELSE {"price"}), {})
        ELSE IF ReadsLatest(price.ethPrice, price.ssvPrice)
        THEN Settle("FetchDone", c, [c1 EXCEPT !.pc = "reading", !.calls.read = @ + 1], {}, {})
        ELSE Settle("FetchDone", c, AfterCompute(c1, computeApr(index.value, price.ethPrice,
                                                   price.ssvPrice, now, {})), {}, {})
  /\ UNCHANGED <<boot, viewsContract, now, store, collects>>

\* getLatestSample answers; computeApr finishes and getProjectedApr starts.
\* When the read is rejected (ok = FALSE) computeApr throws, and the call ends
\* in its catch
ReadLatest(c, ok) ==
  /\ c.pc = "reading"
  /\ LET c1 == [c EXCEPT !.latest = getLatestSample(store)]
     IN IF ~ok
        THEN Settle("ReadLatest", c, [c EXCEPT !.pc = "done"], {"read"}, {})
        ELSE Settle("ReadLatest", c, AfterCompute(c1, computeApr(c.accEthPerShare, c.prices.ethPrice,
                                                                c.prices.ssvPrice, c.timestamp,
                                                                c1.latest)), {}, {})
  /\ UNCHANGED <<boot, viewsContract, now, store, collects>>

\* Promise.all of the two balance calls settles: when both have answered, or,
\* rejecting, as soon as one has failed; then the other may not have answered
\* yet (abandoned), and what it answers later is seen by no one
BalancesDone(c, clustersResp, validatorsResp, abandoned) ==
  /\ c.pc = "balances"
  /\ abandoned => ~clustersResp.ok \/ ~validatorsResp.ok
  /\ Settle("BalancesDone", c, AfterProjection(
                 [c EXCEPT !.balancesFailed = ~clustersResp.ok \/ ~validatorsResp.ok,
                           !.abandoned = abandoned],
                 getProjectedApr(c.aprResult.apr, clustersResp, validatorsResp)),
            {}, {})
  /\ UNCHANGED <<boot, viewsContract, now, store, collects>>

\* aprSampleRepository.save(sample) answers
Save(c) ==
  /\ c.pc = "saving"
  /\ LET c2     == [c EXCEPT !.pc = "done", !.calls.insert = @ + 1]
         sample == SampleOf(c2)
     IN IF InsertRefused(store, sample)
        THEN /\ store' = store
             /\ Settle("Save", c, c2, {"insert"}, {})
        ELSE /\ store' = InsertRow(store, sample)
             /\ Settle("Save", c, c2, {}, {sample})
  /\ UNCHANGED <<boot, viewsContract, now, collects>>

\* cleanupOldSamples: delete({timestamp: LessThan(oneYearAgo)}); like the
\* queries, taken between calls
cleanupOldSamples ==
  /\ boot = "ready"
  /\ cycle = EmptyBag
  /\ LET oneYearAgo == SetFullYearMinusOne(now)
     IN store' = {r \in store : ~DateLT(r.timestamp, oneYearAgo)}
  /\ returned' = [NoReturn EXCEPT !.step = "cleanupOldSamples", !.op = "cleanup",
                                  !.outcome = "ok", !.before = store]
  /\ UNCHANGED <<boot, viewsContract, now, cycle, collects>>

\* GET /apr/latest: the controller's getLatestSamples.  Queries read the table
\* in one statement; they are taken between calls, where every value the
\* table gets is seen.
getLatestSamples ==
  /\ boot = "ready"
  /\ cycle = EmptyBag
  /\ LET samples == getLatestTwoSamples(store)
     IN returned' = [NoReturn EXCEPT
          !.step = "getLatestSamples", !.op = "latest",
          !.outcome = "ok", !.before = store,
          !.c.calls.read = 1,
          !.rows = samples,
          !.status = 200,
          !.body = IF Len(samples) = 0
                   THEN [samples |-> <<>>, message |-> "No samples available yet."]
                   ELSE [samples |-> samples, count |-> Len(samples)]]
  /\ UNCHANGED <<boot, viewsContract, now, store, cycle, collects>>

\* new Date(text) of a string it cannot read
InvalidDate == [dn |-> -3, ms |-> 0]

\* startDate ? new Date(startDate) : undefined.  A date parameter is none (or
\* empty), a string new Date() cannot read, or one it reads as .date
ParseDateParam(param) ==
  IF param.kind = "none" THEN NoDateGiven
  ELSE IF param.kind = "invalid" THEN InvalidDate
  ELSE param.date

\* no date is taken for a bad one
NeverInvalidDate(d) == FALSE

\* parsed && isNaN(parsed.getTime())
IsInvalidDate(d) == d # NoDateGiven /\ d = InvalidDate

\* limit || 30
LimitOrDefault(limit) ==
  IF limit = NoLimit \/ limit = {0} THEN 30 ELSE CHOOSE n \in limit : TRUE

\* GET /apr/history: the controller's getHistory
getHistory(limit, startDate, endDate) ==
  /\ boot = "ready"
  /\ cycle = EmptyBag
  /\ LET parsedStartDate == ParseDateParam(startDate)
         parsedEndDate   == ParseDateParam(endDate)
         query   == [limit |-> limit, startDate |-> startDate, endDate |-> endDate]
         asked   == [NoReturn EXCEPT !.step = "getHistory", !.op = "history",
                                     !.before = store, !.query = query]
         samples == getHistoricalSamples(store, LimitOrDefault(limit),
                                         parsedStartDate, parsedEndDate)
     IN returned' =
          IF IsInvalidDate(parsedStartDate)
          THEN [asked EXCEPT !.outcome = "badrequest", !.status = 400,
                             !.body = [message |-> "Invalid startDate format"]]
          ELSE IF IsInvalidDate(parsedEndDate)
          THEN [asked EXCEPT !.outcome = "badrequest", !.status = 400,
                             !.body = [message |-> "Invalid endDate format"]]
          ELSE [asked EXCEPT !.outcome = "ok",
                             !.c.calls.read = 1,
                             !.rows = samples,
                             !.status = 200,
                             !.body = [samples |-> samples, count |-> Len(samples)]]
  /\ UNCHANGED <<boot, viewsContract, now, store, cycle, collects>>

\* time passes
Tick ==
  /\ now.dn = StartDate.dn
  /\ now.ms + TickMs <= MaxTicks * TickMs
  /\ now' = MkDate(now.dn, now.ms + TickMs)
  /\ returned' = NoReturn
  /\ UNCHANGED <<boot, viewsContract, store, cycle, collects>>

AdvanceDays(d) ==
  /\ now.dn + d <= StartDate.dn + MaxDays
  /\ cycle = EmptyBag
  /\ now' = MkDate(now.dn + d, now.ms)
  /\ returned' = NoReturn
  /\ UNCHANGED <<boot, viewsContract, store, cycle, collects>>

InFlight == BagToSet(cycle)

Next ==
  \/ \E ok \in BOOLEAN : OnModuleInit(ok)
  \/ Start("collect")
  \/ Start("current")
  \/ \E c \in InFlight, i \in IndexResponses, r \in PriceResponses : FetchDone(c, i, r)
  \/ \E c \in InFlight, ok \in BOOLEAN : ReadLatest(c, ok)
  \/ \E c \in InFlight, b \in ClustersResponses, v \in ValidatorsResponses, a \in BOOLEAN :
       BalancesDone(c, b, v, a)
  \/ \E c \in InFlight : Save(c)
  \/ cleanupOldSamples
  \/ getLatestSamples
  \/ \E q \in HistoryQueries : getHistory(q[1], q[2], q[3])
  \/ Tick
  \/ \E d \in DayJumps : AdvanceDays(d)

Spec == Init /\ [][Next]_vars

----------------------------------------------------------------------------
(* Properties *)

\* the calls whose locals the state shows: those in flight, and the one that
\* has just taken a step
Calls == InFlight \cup (IF returned.step = "none" THEN {} ELSE {returned.c})

\* computeApr has returned in call c
Computed(c) == c.pc \in {"balances", "saving", "done"} /\ c.timestamp # NoDate

\* the index the previous sample stores, as computeApr reads it
PreviousRaw(prev) == parseWeiFromNumeric(prev.accEthPerShare).value

\* currentRaw > previousRaw
IndexGrew(c, prev) == BigSub(c.accEthPerShare, PreviousRaw(prev)).m > 0

\* the call's timestamp is at least one second after the previous sample's
SecondPassed(c, prev) ==
  DateLE(MkDate(prev.timestamp.dn, prev.timestamp.ms + 1000), c.timestamp)

PositiveFinite(x) == IsFinite(x) /\ GtZero(x)

C1_Case(c, prev) ==
  /\ IndexGrew(c, prev)
  /\ SecondPassed(c, prev)
  /\ PositiveFinite(c.prices.ethPrice)
  /\ PositiveFinite(c.prices.ssvPrice)

\* ((currentRaw - previousRaw) / 1e18 / deltaTimeSeconds) x 31,536,000 x
\* (ethPrice / ssvPrice) x 100, with the divisions gathered into one
C1_Expected(c, prev) ==
  Div(Mul(Mul(Mul(BigToNumber(BigSub(c.accEthPerShare, PreviousRaw(prev))),
                  IntNum(31536000)),
              Div(c.prices.ethPrice, c.prices.ssvPrice)),
          IntNum(100)),
      Mul(Fin(1, 1, 18),
          IntNum(FloorSecondsBetween(c.timestamp, prev.timestamp))))

\* C1: when computeApr found a previous sample, the index read is above the
\* previous sample's, at least one second lies between the two timestamps and
\* both prices are positive and finite, the baseline APR is not null and is
\* ((currentRaw - previousRaw) / 1e18 / deltaTimeSeconds) x 31,536,000 x
\* (ethPrice / ssvPrice) x 100.
C1_DeltaFormula ==
  \A c \in Calls : Computed(c) =>
    \A prev \in c.latest : C1_Case(c, prev) =>
      /\ c.aprResult.apr # Null
      /\ c.aprResult.apr = C1_Expected(c, prev)

C1_Witness ==
  \E c \in Calls : /\ Computed(c)
                   /\ \E prev \in c.latest : C1_Case(c, prev)
                   /\ IsFinite(c.aprResult.apr)

\* C2: a collectAprSample call whose getLatestSample found the store empty has
\* a null baseline APR and a null projected APR, and the sample it persists
\* has currentApr, aprProjected, deltaIndex and deltaTime null.
C2_EmptyStoreNull ==
  /\ \A c \in Calls :
       (c.op = "collect" /\ Computed(c) /\ c.calls.read = 1 /\ c.latest = {}) =>
         /\ c.aprResult.apr = Null
         /\ c.aprProjected = Null
  /\ (/\ returned.step = "Save"
      /\ returned.outcome = "ok"
      /\ returned.c.calls.read = 1
      /\ returned.c.latest = {}) =>
       \E s \in returned.saved :
         LET row == Persisted(s)
         IN /\ row \in store
            /\ row.timestamp = returned.c.timestamp
            /\ row.currentApr = TextNull
            /\ row.aprProjected = TextNull
            /\ row.deltaIndex = TextNull
            /\ row.deltaTime = Null

C2_Witness ==
  /\ returned.step = "Save"
  /\ returned.outcome = "ok"
  /\ returned.c.calls.read = 1
  /\ returned.c.latest = {}
  /\ Cardinality(store) = 1

\* C3: whatever the two timestamps, when the index read is less than or equal
\* to the index the previous sample stores, computeApr returns a null
\* baseline APR.
C3_NoGrowthNull ==
  \A c \in Calls : Computed(c) =>
    \A prev \in c.latest : ~IndexGrew(c, prev) => c.aprResult.apr = Null

C3_Witness ==
  \E c \in Calls : /\ Computed(c)
                   /\ \E prev \in c.latest : /\ ~IndexGrew(c, prev)
                                             /\ SecondPassed(c, prev)
                   /\ PositiveFinite(c.prices.ssvPrice)
                   /\ c.aprResult.apr = Null

\* C4: when the call's timestamp is less than one second after the previous
\* sample's (the same, an earlier one, or a later one by less than a second),
\* computeApr returns a null baseline APR, whatever the index delta.
C4_NoSecondNull ==
  \A c \in Calls : Computed(c) =>
    \A prev \in c.latest : ~SecondPassed(c, prev) => c.aprResult.apr = Null

\* a later timestamp by less than a second, with an index that grew
C4_Witness ==
  \E c \in Calls : /\ Computed(c)
                   /\ \E prev \in c.latest : /\ DateLT(prev.timestamp, c.timestamp)
                                             /\ ~SecondPassed(c, prev)
                                             /\ IndexGrew(c, prev)
                   /\ PositiveFinite(c.prices.ssvPrice)
                   /\ c.aprResult.apr = Null

\* the same timestamp, and an earlier one (a call that took its timestamp
\* before the sample was stored by a call that took its own later)
C4_SameTimestamp ==
  \E c \in Calls : Computed(c) /\ \E prev \in c.latest :
    prev.timestamp = c.timestamp /\ IndexGrew(c, prev)

C4_EarlierTimestamp ==
  \E c \in Calls : Computed(c) /\ \E prev \in c.latest :
    DateLT(c.timestamp, prev.timestamp) /\ IndexGrew(c, prev)

\* the step ended a collectAprSample call that had lost a balance call
C5_Case == /\ returned.step = "Save"
           /\ returned.c.balancesFailed

\* the row collectAprSample's locals make: the baseline APR to two decimals,
\* and no projected APR
C5_RowStored ==
  \E row \in store :
    /\ row.timestamp = returned.c.timestamp
    /\ row.currentApr = toFixed2(returned.c.aprResult.apr)
    /\ row.aprProjected = TextNull

\* C5 as the spec states it: a collectAprSample call that lost a balance
\* call after a non-null baseline APR succeeds and persists the baseline
\* with a null aprProjected.
C5_AlwaysSucceeds ==
  C5_Case => returned.outcome = "ok" /\ C5_RowStored

\* C5, amended: losing a balance call never fails a collectAprSample call;
\* the call keeps its non-null baseline APR, takes a null projected APR and
\* goes on to save; it succeeds and persists the baseline with a null
\* aprProjected unless a stored sample already has its timestamp, the one
\* case in which it fails, at the insertion.
C5_BalanceFailureIsolated ==
  /\ \A c \in Calls : (c.op = "collect" /\ c.balancesFailed) =>
       /\ c.pc \in {"saving", "done"}
       /\ c.aprResult.apr # Null
       /\ c.aprProjected = Null
  /\ C5_Case =>
       IF \E r \in returned.before : r.timestamp = returned.c.timestamp
       THEN returned.outcome = "error" /\ returned.failed = {"insert"}
       ELSE returned.outcome = "ok" /\ C5_RowStored

C5_Witness ==
  /\ C5_Case
  /\ returned.outcome = "ok"
  /\ C5_RowStored

\* C6: in every collectAprSample or getCurrentApr call whose baseline APR is
\* null, the projected APR is null and neither effective-balance call is made.
C6_NullBaselineNoBalanceCall ==
  \A c \in Calls : (Computed(c) /\ c.aprResult.apr = Null) =>
    /\ c.aprProjected = Null
    /\ c.pc # "balances"
    /\ c.calls.clusters = 0
    /\ c.calls.validators = 0
    /\ (returned.c = c /\ returned.op = "current" /\ returned.failed = {}) =>
         returned.response.aprProjected = Null

C6_Witness ==
  /\ returned.op \in {"collect", "current"}
  /\ returned.failed = {}
  /\ Computed(returned.c)
  /\ returned.c.latest # {}
  /\ returned.c.aprResult.apr = Null

\* C8: when the index call or the price call of a collectAprSample call fails,
\* a price response without one of the two prices counting as a failure, the
\* call throws to its caller, the table is as it was, and no balance call and
\* no insertion is made; no call goes past the two feeds with a price that is
\* not a number.
C8_FeedFailureFailsCollect ==
  /\ (returned.op = "collect" /\ returned.failed \cap {"index", "price"} # {}) =>
       /\ returned.step = "FetchDone"
       /\ returned.outcome = "error"
       /\ returned.saved = {}
       /\ store = returned.before
       /\ returned.c.calls.clusters = 0
       /\ returned.c.calls.validators = 0
       /\ returned.c.calls.insert = 0
  /\ \A c \in Calls : c.pc \in {"reading", "balances", "saving"} =>
       /\ c.prices.ethPrice # Undefined
       /\ c.prices.ssvPrice # Undefined
       /\ c.prices.ethPrice # Null
       /\ c.prices.ssvPrice # Null

C8_Witness ==
  /\ returned.op = "collect"
  /\ returned.failed = {"price"}
  /\ viewsContract
  /\ store # {}
  /\ returned.outcome = "error"

\* C9: a collectAprSample call whose timestamp is that of a stored sample
\* fails at the insertion, throws to its caller and adds no row; an insertion
\* that succeeds adds one row; and no two stored samples share a timestamp.
C9_UniqueTimestamp ==
  /\ \A r, q \in store : r.timestamp = q.timestamp => r = q
  /\ returned.step = "Save" =>
       IF \E r \in returned.before : r.timestamp = returned.c.timestamp
       THEN /\ returned.outcome = "error"
            /\ returned.failed = {"insert"}
            /\ returned.saved = {}
            /\ store = returned.before
       ELSE returned.outcome = "ok" =>
              Cardinality(store) = Cardinality(returned.before) + 1

C9_Witness ==
  /\ returned.step = "Save"
  /\ \E r \in returned.before : r.timestamp = returned.c.timestamp
  /\ returned.outcome = "error"
  /\ Cardinality(store) = 1

\* C10: in every step, the table changes only when a collectAprSample call
\* succeeds or cleanupOldSamples runs; a collectAprSample call that succeeds
\* adds exactly one sample, one that fails adds none; getCurrentApr, the
\* history query and the latest-two query leave the table as it is; a stored
\* sample is never changed, and is removed only by cleanupOldSamples.
C10_StepFrame ==
  /\ (returned'.op = "collect" /\ returned'.outcome = "ok") =>
       /\ store \subseteq store'
       /\ Cardinality(store') = Cardinality(store) + 1
  /\ (returned'.op = "collect" /\ returned'.outcome = "error") => store' = store
  /\ returned'.op \in {"current", "history", "latest"} => store' = store
  /\ store' # store =>
       \/ returned'.op = "collect" /\ returned'.outcome = "ok"
       \/ returned'.op = "cleanup"
  /\ \A r \in store :
       /\ \A q \in store' : q.timestamp = r.timestamp => q = r
       /\ r \notin store' => returned'.op = "cleanup"

C10_Frame == [][C10_StepFrame]_vars

\* cleanupOldSamples has removed a sample
C10_Witness ==
  /\ returned.op = "cleanup"
  /\ returned.before # {}
  /\ store # returned.before

\* the table held one sample when the call read it and when it returned
C12_Case ==
  /\ returned.op = "current"
  /\ returned.failed = {}
  /\ Cardinality(returned.before) = 1
  /\ returned.c.calls.read = 1 => returned.c.latest = returned.before

\* C12: when exactly one sample is stored, getCurrentApr returns a null apr
\* and a null aprProjected.
C12_OneSampleNull ==
  C12_Case => /\ returned.response.apr = Null
              /\ returned.response.aprProjected = Null

\* C13: a getCurrentApr call never throws and GET /apr/current always answers
\* 200; when the index call, the price call or the read of the latest sample
\* fails the service returns null, the answer is {currentApr: null,
\* aprProjected: null, message}, and the table is as it was.
C13_CurrentNeverFails ==
  returned.op = "current" =>
    /\ returned.outcome = "ok"
    /\ returned.status = 200
    /\ store = returned.before
    /\ returned.failed # {} =>
         /\ returned.failed \subseteq {"index", "price", "read"}
         /\ returned.response.null
         /\ DOMAIN returned.body = {"currentApr", "aprProjected", "message"}
         /\ returned.body.currentApr = Null
         /\ returned.body.aprProjected = Null

\* the read of the latest sample failed, with samples in the table
C13_Witness ==
  /\ returned.op = "current"
  /\ returned.failed = {"read"}
  /\ returned.before # {}
  /\ returned.status = 200
  /\ returned.body.currentApr = Null

\* the index call and the price call fail as well
C13_FeedsFail ==
  /\ returned.op = "current"
  /\ returned.failed = {"index", "price"}

\* more than 365 days before t
MoreThan365DaysBefore(ts, t) == DateLT(ts, MkDate(t.dn - 365, t.ms))

\* C14: cleanupOldSamples run at `now` deletes exactly the stored samples whose
\* timestamp is more than 365 days before `now` and leaves every other sample
\* in place.
C14_CleanupExact ==
  returned.op = "cleanup" =>
    store = {r \in returned.before : ~MoreThan365DaysBefore(r.timestamp, now)}

\* rows runs from the most recent sample to the oldest
MostRecentFirst(rows) ==
  \A i, j \in 1..Len(rows) : i < j => DateLT(rows[j].timestamp, rows[i].timestamp)

\* rows holds the min(k, |S|) most recent samples of S, most recent first
MostRecentOf(rows, S, k) ==
  /\ Len(rows) = (IF k <= Cardinality(S) THEN k ELSE Cardinality(S))
  /\ MostRecentFirst(rows)
  /\ \A i \in 1..Len(rows) : rows[i] \in S
  /\ \A r \in S : (\A i \in 1..Len(rows) : rows[i] # r) =>
       \A i \in 1..Len(rows) : DateLT(r.timestamp, rows[i].timestamp)

\* the stored samples a request's dates select
InRange(rows, query) ==
  {r \in rows :
     /\ query.startDate.kind = "date" => DateLE(query.startDate.date, r.timestamp)
     /\ query.endDate.kind = "date" => DateLE(r.timestamp, query.endDate.date)}

\* C15: GET /apr/history returns the stored samples with startDate <=
\* timestamp <= endDate (each bound applied only when given), most recent
\* first, the min(limit, number in range) most recent of them, where limit is
\* 30 when the request has none.
C15_HistoryQuery ==
  (returned.op = "history" /\ returned.outcome = "ok") =>
    LET limit == IF returned.query.limit = NoLimit THEN 30
                 ELSE CHOOSE n \in returned.query.limit : TRUE
    IN /\ MostRecentOf(returned.rows, InRange(returned.before, returned.query), limit)
       /\ returned.body.samples = returned.rows
       /\ returned.body.count = Len(returned.rows)

\* the same for the requests whose limit is above 0 or left out: what the code
\* does for them
C15_PositiveLimit ==
  (returned.op = "history" /\ returned.outcome = "ok" /\ returned.query.limit # {0}) =>
    C15_HistoryQuery

\* C16: GET /apr/history with a startDate or an endDate that does not read as
\* a date is answered 400 Bad Request and the table is not read for it.
C16_BadDateRejected ==
  (/\ returned.op = "history"
   /\ \/ returned.query.startDate.kind = "invalid"
      \/ returned.query.endDate.kind = "invalid") =>
    /\ returned.outcome = "badrequest"
    /\ returned.status = 400
    /\ returned.c.calls.read = 0
    /\ returned.rows = <<>>
    /\ DOMAIN returned.body = {"message"}
    /\ store = returned.before

\* a good startDate with a bad endDate, and samples in the table
C16_Witness ==
  /\ returned.op = "history"
  /\ returned.query.startDate.kind = "date"
  /\ returned.query.endDate.kind = "invalid"
  /\ returned.status = 400
  /\ returned.before # {}

\* the min(2, N) most recent stored samples, most recent first
C17_Samples ==
  /\ MostRecentOf(returned.rows, returned.before, 2)
  /\ returned.body.samples = returned.rows
  /\ returned.status = 200

\* C17 as the spec states it: for every store size N, 0 included, GET
\* /apr/latest returns the min(2, N) most recent stored samples, most recent
\* first, with a count equal to the number of samples returned.
C17_AlwaysCounted ==
  returned.op = "latest" =>
    /\ C17_Samples
    /\ "count" \in DOMAIN returned.body
    /\ returned.body.count = Len(returned.rows)

\* C17, amended: for every store size N of 1 or more, GET /apr/latest returns
\* the min(2, N) most recent stored samples, most recent first, with a count
\* equal to the number of samples returned; for an empty store it returns an
\* empty list of samples with a message, and no count.
C17_LatestTwo ==
  returned.op = "latest" =>
    /\ C17_Samples
    /\ IF returned.before = {}
       THEN /\ returned.rows = <<>>
            /\ DOMAIN returned.body = {"samples", "message"}
       ELSE /\ DOMAIN returned.body = {"samples", "count"}
            /\ returned.body.count = Len(returned.rows)

\* three samples stored, two returned
C17_Witness ==
  /\ returned.op = "latest"
  /\ Cardinality(returned.before) = 3
  /\ Len(returned.rows) = 2
  /\ returned.body.count = 2

\* each feed, the read and the insertion are made at most once in a call
C18_AtMostOnce ==
  \A c \in Calls :
    /\ c.calls.index <= 1
    /\ c.calls.price <= 1
    /\ c.calls.read <= 1
    /\ c.calls.clusters <= 1
    /\ c.calls.validators <= 1
    /\ c.calls.insert <= 1

\* the step lost the index call or the price call: the call has ended, having
\* made no other call, and the table is as it was
C18_FeedFailureEnds ==
  returned.failed \cap {"index", "price"} # {} =>
    /\ returned.c.pc = "done"
    /\ returned.c \notin InFlight
    /\ returned.c.calls.read = 0
    /\ returned.c.calls.clusters = 0
    /\ returned.c.calls.validators = 0
    /\ returned.c.calls.insert = 0
    /\ returned.saved = {}
    /\ store = returned.before

TwoFractionDigits(text) ==
  LET p == IndexOf(text, ".")
  IN /\ p > 1
     /\ Len(text) = p + 2
     /\ \A i \in 1..Len(text) : i # p => IsDigit(text[i])

\* text is the positive number x rounded to a whole number of hundredths
RoundedToHundredths(text, x) ==
  LET p    == IndexOf(text, ".")
      N    == DigitsToNat(SubSeq(text, 1, p - 1) \o SubSeq(text, p + 1, Len(text)))
      num  == IF x.e + 2 >= 0 THEN x.n * Pow10(x.e + 2) ELSE x.n
      den  == IF x.e + 2 >= 0 THEN x.d ELSE x.d * Pow10(-(x.e + 2))
  IN (2 * N - 1) * den <= 2 * num /\ 2 * num < (2 * N + 1) * den

\* the entity a collectAprSample call has just saved
C21_Saved == IF returned.step = "Save" /\ returned.outcome = "ok" THEN returned.saved ELSE {}

\* what getCurrentApr has just returned is computeApr's number itself, and its
\* projection by the balances' ratio (16 / 64 in the responses tried)
C21_CurrentUnrounded ==
  (returned.op = "current" /\ ~returned.response.null) =>
    /\ \A prev \in returned.c.latest :
         C1_Case(returned.c, prev) =>
           /\ returned.response.apr = C1_Expected(returned.c, prev)
           /\ returned.body.apr = C1_Expected(returned.c, prev)
    /\ returned.response.aprProjected # Null =>
         returned.response.aprProjected = Div(returned.response.apr, IntNum(4))

\* C21 as the spec states it: ethPrice, ssvPrice, currentApr and aprProjected
\* are written by collectAprSample with exactly 2 fractional digits when not
\* null, and what getCurrentApr returns is not rounded.
C21_AllTwoDigits ==
  /\ \A s \in C21_Saved :
       /\ TwoFractionDigits(s.ethPrice)
       /\ TwoFractionDigits(s.ssvPrice)
       /\ s.currentApr # TextNull => TwoFractionDigits(s.currentApr)
       /\ s.aprProjected # TextNull => TwoFractionDigits(s.aprProjected)
  /\ C21_CurrentUnrounded

\* C21, amended: currentApr and aprProjected are written by collectAprSample
\* with exactly 2 fractional digits when not null, each the number rounded to
\* hundredths; ethPrice and ssvPrice are written as the price's own decimal
\* text, unrounded; and what getCurrentApr returns is not rounded.
C21_AprTwoDigits ==
  /\ \A s \in C21_Saved :
       /\ StringToNumber(s.ethPrice) = returned.c.prices.ethPrice
       /\ StringToNumber(s.ssvPrice) = returned.c.prices.ssvPrice
       /\ (s.currentApr = TextNull) = (returned.c.aprResult.apr = Null)
       /\ s.currentApr # TextNull =>
            /\ TwoFractionDigits(s.currentApr)
            /\ RoundedToHundredths(s.currentApr, returned.c.aprResult.apr)
       /\ (s.aprProjected = TextNull) = (returned.c.aprProjected = Null)
       /\ s.aprProjected # TextNull =>
            /\ TwoFractionDigits(s.aprProjected)
            /\ RoundedToHundredths(s.aprProjected, returned.c.aprProjected)
  /\ C21_CurrentUnrounded

\* a sample saved with both percentages, neither a whole number of hundredths
C21_Witness ==
  \E s \in C21_Saved :
    /\ s.currentApr # TextNull
    /\ s.aprProjected # TextNull
    /\ returned.c.aprResult.apr.d # 1
    /\ returned.c.aprProjected.d # 1

\* a getCurrentApr response whose numbers have more than two decimals
C21_CurrentWitness ==
  /\ returned.op = "current"
  /\ ~returned.response.null
  /\ returned.response.apr # Null
  /\ returned.response.apr.d # 1
  /\ returned.response.aprProjected # Null

\* the raw index of a saved entity
RawOf(s) == BigFromDigits(s.accEthPerShare)

\* k whole seconds have passed from b to a, and less than k + 1
WholeSecondsFrom(k, a, b) ==
  LET j == k - (a.dn - b.dn) * 86400
  IN j * 1000 <= a.ms - b.ms /\ a.ms - b.ms < (j + 1) * 1000

\* s.deltaIndex and s.deltaTime are taken against p
DeltasAgainst(s, p) ==
  /\ s.deltaIndex = BigToString(BigSub(RawOf(s), PreviousRaw(p)))
  /\ s.deltaTime.k = "fin"
  /\ s.deltaTime.d = 1
  /\ WholeSecondsFrom(s.deltaTime.n * Pow10(s.deltaTime.e), s.timestamp, p.timestamp)

\* p is the sample of rows right before timestamp ts
ImmediatelyPrecedes(p, ts, rows) ==
  /\ p \in rows
  /\ DateLT(p.timestamp, ts)
  /\ \A q \in rows : DateLT(q.timestamp, ts) => DateLE(q.timestamp, p.timestamp)

\* the sample a collectAprSample call has just inserted, when its deltaIndex
\* is not null
C22_Inserted ==
  IF returned.step = "Save" /\ returned.outcome = "ok"
  THEN {s \in returned.saved : s.deltaIndex # TextNull}
  ELSE {}

\* C22 as the spec states it: a sample stored with a deltaIndex has as
\* deltaIndex its raw index minus that of the sample right before it in
\* timestamp order when it was inserted, and as deltaTime the seconds between
\* the two timestamps, also when collectAprSample calls overlap.
C22_AgainstPreceding ==
  \A s \in C22_Inserted :
    \E p \in returned.before :
      /\ ImmediatelyPrecedes(p, s.timestamp, returned.before)
      /\ DeltasAgainst(s, p)

\* C22, amended: a sample stored with a deltaIndex has as deltaIndex its raw
\* index minus that of the sample that had the greatest timestamp in the table
\* when its call read the table, and as deltaTime the whole seconds from that
\* sample's timestamp to its own; that sample is the one right before it in
\* timestamp order at the insertion when it is still the latest of the table
\* then, as it is when nothing was written in between.
C22_AgainstBaselineRead ==
  /\ (returned.step = "ReadLatest" /\ returned.failed = {}) =>
       /\ returned.c.latest \subseteq returned.before
       /\ (returned.c.latest = {}) = (returned.before = {})
       /\ \A p \in returned.c.latest :
            \A q \in returned.before : DateLE(q.timestamp, p.timestamp)
  /\ \A s \in C22_Inserted :
       /\ returned.c.latest # {}
       /\ \A p \in returned.c.latest :
            /\ DeltasAgainst(s, p)
            /\ (/\ p \in returned.before
                /\ \A q \in returned.before : DateLE(q.timestamp, p.timestamp)) =>
                 ImmediatelyPrecedes(p, s.timestamp, returned.before)

\* a call inserts a sample with a deltaIndex after an overlapping call has
\* inserted one since it read the table
C22_Witness ==
  \E s \in C22_Inserted :
    \E p \in returned.c.latest, q \in returned.before :
      /\ DateLT(p.timestamp, q.timestamp)
      /\ DateLT(q.timestamp, s.timestamp)

\* collectAprSample with prices of either sign: the calls of Spec, without the
\* clock, the queries and getCurrentApr, and with price bodies that have a
\* zero or a negative price
NextPrices ==
  \/ \E ok \in BOOLEAN : OnModuleInit(ok)
  \/ Start("collect")
  \/ \E c \in InFlight, i \in IndexResponses,
        r \in PriceResponses \cup
              {[ok |-> TRUE, eth |-> Fin(0, 1, 0), ssv |-> Fin(7, 1, 0)],
               [ok |-> TRUE, eth |-> Fin(3, 1, 3), ssv |-> Fin(-7, 1, 0)],
               [ok |-> TRUE, eth |-> Fin(-3, 1, 3), ssv |-> Fin(-7, 1, 0)]} :
       FetchDone(c, i, r)
  \/ \E c \in InFlight, ok \in BOOLEAN : ReadLatest(c, ok)
  \/ \E c \in InFlight, b \in ClustersResponses, v \in ValidatorsResponses, a \in BOOLEAN :
       BalancesDone(c, b, v, a)
  \/ \E c \in InFlight : Save(c)
  \/ Tick

SpecPrices == Init /\ [][NextPrices]_vars

\* a column's decimal text is above zero
PositiveText(text) ==
  /\ text # TextNull
  /\ Head(text) # "-"
  /\ \E i \in 1..Len(text) : IsDigit(text[i]) /\ text[i] # "0"

\* C23: every stored sample with a non-null currentApr or aprProjected has
\* ethPrice > 0 and ssvPrice > 0.
C23_PositivePrices ==
  \A r \in store :
    (r.currentApr # TextNull \/ r.aprProjected # TextNull) =>
      PositiveText(r.ethPrice) /\ PositiveText(r.ssvPrice)

\* C24: every stored sample has deltaIndex, deltaTime and currentApr all null
\* or all non-null, and when they are non-null deltaIndex > 0 and
\* deltaTime > 0.
C24_DeltasTogether ==
  \A r \in store :
    \/ /\ r.deltaIndex = TextNull
       /\ r.deltaTime = Null
       /\ r.currentApr = TextNull
    \/ /\ r.deltaIndex # TextNull
       /\ r.deltaTime # Null
       /\ r.currentApr # TextNull
       /\ PositiveText(r.deltaIndex)
       /\ r.deltaTime.k = "fin"
       /\ r.deltaTime.n > 0

\* a sample with the three and one without are stored, the latter from a call
\* that found a baseline, an index that grew and a second passed, and whose
\* product was not finite
C24_Witness ==
  /\ \E r \in store : r.deltaIndex # TextNull /\ r.currentApr # TextNull
  /\ returned.step = "Save"
  /\ returned.outcome = "ok"
  /\ \E prev \in returned.c.latest :
       /\ IndexGrew(returned.c, prev)
       /\ SecondPassed(returned.c, prev)
  /\ \E s \in returned.saved : s.currentApr = TextNull /\ s.deltaIndex = TextNull

\* the collectAprSample calls the state shows
C25_Collects == {c \in Calls : c.op = "collect"}

\* the index call and the price call are both made before either is awaited;
\* the table is read only after both have succeeded; the balance calls are
\* made, together, only after a non-null baseline APR; and the table is
\* written by the call's one insertion alone
C25_Steps ==
  /\ \A c \in C25_Collects :
       /\ c.calls.index = 1 /\ c.calls.price = 1
       /\ c.pc = "fetching" =>
            /\ c.timestamp = NoDate
            /\ c.calls.read = 0
            /\ c.calls.clusters = 0 /\ c.calls.validators = 0
            /\ c.calls.insert = 0
       /\ c.calls.read >= 1 =>
            /\ c.timestamp # NoDate
            /\ IsFinite(c.prices.ethPrice) /\ IsFinite(c.prices.ssvPrice)
       /\ (c.calls.clusters >= 1 \/ c.calls.validators >= 1) =>
            /\ c.calls.clusters = 1 /\ c.calls.validators = 1
            /\ c.calls.read = 1
            /\ c.pc # "reading"
            /\ c.aprResult.apr # Null
       /\ c.calls.insert >= 1 =>
            /\ c.calls.insert = 1
            /\ c.pc = "done"
            /\ c.timestamp # NoDate
  /\ (returned.op = "collect" \/ returned.c.op = "collect") =>
       IF returned.step = "Save" /\ returned.outcome = "ok"
       THEN \E s \in returned.saved : store = returned.before \cup {Persisted(s)}
       ELSE store = returned.before

\* C25 as the spec states it: the steps of a collect cycle come in the order
\* above, and the insertion is made after every feed call of the cycle has
\* completed.
C25_InsertAfterAllFeeds ==
  /\ C25_Steps
  /\ \A c \in C25_Collects : c.pc \in {"saving", "done"} => ~c.abandoned

\* C25, amended: the steps of a collect cycle come in the order above, and the
\* insertion is made after the index and the price call have completed and
\* after the balance calls have both completed or one of them has failed; the
\* other one may then still be unanswered.
C25_InsertAfterFeedsSettle ==
  /\ C25_Steps
  /\ \A c \in C25_Collects :
       /\ c.abandoned => c.balancesFailed /\ c.aprProjected = Null
       /\ c.pc \in {"saving", "done"} /\ c.calls.clusters = 1 /\ ~c.balancesFailed =>
            ~c.abandoned

\* a sample is inserted while a balance call of its cycle is unanswered
C25_Witness ==
  /\ returned.step = "Save"
  /\ returned.outcome = "ok"
  /\ returned.c.calls.read = 1
  /\ returned.c.calls.clusters = 1
  /\ returned.c.abandoned
  /\ store # returned.before

\* the process has started without its contract handle
C30_Disabled == boot = "ready" /\ ~viewsContract

\* no call gets past its first await, a collectAprSample call fails on the
\* index and stores nothing, a getCurrentApr call returns null, and the table
\* has no sample of this process
C30_NothingCollected ==
  /\ \A c \in {d \in Calls : d.op \in {"collect", "current"}} :
       /\ c.pc \in {"fetching", "done"}
       /\ c.timestamp = NoDate
       /\ c.calls.read = 0 /\ c.calls.clusters = 0 /\ c.calls.insert = 0
  /\ returned.op = "collect" =>
       /\ returned.outcome = "error"
       /\ "index" \in returned.failed
       /\ returned.saved = {}
       /\ store = returned.before
  /\ returned.op = "current" =>
       /\ returned.response = NoResponse
       /\ returned.body = CurrentBody(NoResponse)
  /\ store \subseteq {EarlierSample}

\* C30: when onModuleInit is skipped or fails, startup still completes
\* without error and the contract handle is never set afterwards, so that
\* every later getAccEthPerShare call fails: every collectAprSample call fails
\* without storing a sample and every getCurrentApr call returns null, for as
\* long as the process runs.
C30_DisabledForGood ==
  /\ [](C30_Disabled => C30_NothingCollected)
  /\ [][/\ boot = "constructed" /\ boot' # boot => boot' = "ready" /\ returned' = NoReturn
        /\ C30_Disabled => C30_Disabled' /\ store' \subseteq store]_vars

\* without the handle both collectAprSample calls have failed, and a
\* getCurrentApr call after them has returned null
C30_Witness ==
  /\ C30_Disabled
  /\ collects = MaxCollects
  /\ cycle = EmptyBag
  /\ returned.op = "current"
  /\ returned.response = NoResponse
  /\ returned.status = 200

----------------------------------------------------------------------------
(* collectAprSample over a sample whose index has no decimal literal *)

\* EarlierSample with an index that a numeric column can hold and that is none
\* of the literals parseWeiFromNumeric takes, NaN or a value below zero, as
\* the table gives it back
UnparsedSamples ==
  {[EarlierSample EXCEPT !.accEthPerShare = NumericColumn(t, 18)] :
     t \in {<<"N", "a", "N">>, <<"-", "1">> \o Zeros(11)}}

\* the table holds one sample when the process starts, and its index is one
\* of these
InitUnparsed ==
  /\ boot = "constructed"
  /\ viewsContract = FALSE
  /\ now = StartDate
  /\ store \in {{s} : s \in UnparsedSamples}
  /\ cycle = EmptyBag
  /\ returned = NoReturn
  /\ collects = 0

\* the collectAprSample calls of SpecPrices over such a table
SpecUnparsed == InitUnparsed /\ [][NextPrices]_vars

\* the calls whose baseline is a sample with such an index
C26_OverUnparsed == {c \in Calls : c.latest # {} /\ c.latest \subseteq UnparsedSamples}

\* the sample a call has stored over such a baseline has the three null
C26_StoredNull ==
  /\ returned.outcome = "ok"
  /\ \E s \in returned.saved :
       /\ Persisted(s) \in store
       /\ s.currentApr = TextNull
       /\ s.deltaIndex = TextNull
       /\ s.deltaTime = Null

----------------------------------------------------------------------------
(* EcService.gweiToEthString *)

\* the digits of base = 1_000_000_000n after the 1
GweiDecimals == 9

\* a conversion that does not pad the fraction
gweiToEthStringUnpadded(value) ==
  LET trimmed == Trim(value)
  IN IF ~(Len(trimmed) >= 1 /\ AllDigits(trimmed)) THEN [ok |-> FALSE, text |-> <<>>]
     ELSE
       LET gwei     == StripLeadingZeros(trimmed)
           n        == Len(gwei)
           whole    == IF n > GweiDecimals THEN SubSeq(gwei, 1, n - GweiDecimals) ELSE <<"0">>
           fraction == StripLeadingZeros(SubSeq(gwei, IF n > GweiDecimals THEN n - GweiDecimals + 1 ELSE 1, n))
       IN IF fraction = <<"0">> THEN [ok |-> TRUE, text |-> whole]
          ELSE [ok |-> TRUE,
                text |-> whole \o <<".">>
                           \o SubSeq(fraction, 1, Len(fraction) - TrailingZeros(fraction))]

\* gweiToEthString; ok = FALSE stands for the thrown Error.  A bigint is here
\* its decimal digits without leading zeros, as BigInt(trimmed).toString()
\* gives them: gwei / base is those digits without the last nine ("0" when
\* none is left) and gwei % base is the last nine, again without leading zeros
gweiToEthString(value) ==
  LET trimmed == Trim(value)
  IN IF ~(Len(trimmed) >= 1 /\ AllDigits(trimmed)) THEN [ok |-> FALSE, text |-> <<>>]
     ELSE
       LET gwei     == StripLeadingZeros(trimmed)
           n        == Len(gwei)
           whole    == IF n > GweiDecimals THEN SubSeq(gwei, 1, n - GweiDecimals) ELSE <<"0">>
           fraction == StripLeadingZeros(SubSeq(gwei, IF n > GweiDecimals THEN n - GweiDecimals + 1 ELSE 1, n))
       IN IF fraction = <<"0">> THEN [ok |-> TRUE, text |-> whole]
          ELSE
            LET padded      == Zeros(GweiDecimals - Len(fraction)) \o fraction
                fractionStr == SubSeq(padded, 1, Len(padded) - TrailingZeros(padded))
            IN [ok |-> TRUE, text |-> whole \o <<".">> \o fractionStr]

MaxGweiLen == 3

\* the texts tried: every text of up to MaxGweiLen characters out of digits,
\* a blank, a sign, a point and a letter; and texts of up to GweiDecimals + 1
\* zeros between a head and a tail, bare or between blanks
GweiTexts ==
  LET chars  == {"0", "1", "9", " ", "-", ".", "e"}
      heads  == {<<>>, <<"1">>, <<"3", "2">>, <<"0">>}
      tails  == {<<>>, <<"5">>, <<"0", "7">>, <<"x">>, <<".", "5">>}
      blanks == {<<>>, <<" ">>}
  IN (UNION {[1..n -> chars] : n \in 0..MaxGweiLen}) \cup
     {s \o a \o Zeros(k) \o b \o s :
        s \in blanks, a \in heads, k \in 0..(GweiDecimals + 1), b \in tails}

ConvertGwei(value) ==
  /\ returned' = [step |-> "gweiToEthString", value |-> value,
                  result |-> gweiToEthString(value)]
  /\ UNCHANGED <<boot, viewsContract, now, store, cycle, collects>>

NextGwei == \E value \in GweiTexts : ConvertGwei(value)

SpecGwei == Init /\ [][NextGwei]_vars

\* the whole part and the fraction of a decimal text
WholeOf(text) ==
  LET p == IndexOf(text, ".") IN IF p = 0 THEN text ELSE SubSeq(text, 1, p - 1)

FractionOf(text) ==
  LET p == IndexOf(text, ".") IN IF p = 0 THEN <<>> ELSE SubSeq(text, p + 1, Len(text))

\* text is the decimal representation of g / 10^9 for the digits g: digits, at
\* most one point, no leading zero before the point but a lone 0, at most nine
\* digits after it and the last of them not 0, no point without a digit after
\* it; and the digits of text, the fraction filled up to nine, are those of g
ExactEthOf(text, g) ==
  LET whole == WholeOf(text)
      frac  == FractionOf(text)
  IN /\ Len(whole) >= 1
     /\ AllDigits(whole)
     /\ AllDigits(frac)
     /\ whole = StripLeadingZeros(whole)
     /\ Len(frac) <= GweiDecimals
     /\ (IndexOf(text, ".") # 0) = (frac # <<>>)
     /\ frac # <<>> => frac[Len(frac)] # "0"
     /\ StripLeadingZeros(whole \o frac \o Zeros(GweiDecimals - Len(frac)))
          = StripLeadingZeros(g)

\* C27: gweiToEthString converts every string of decimal digits g to the exact
\* decimal representation of g / 10^9 with at most 9 fractional digits, no
\* trailing zeros and no decimal point when the fraction is zero; an input
\* that after trimming is not purely decimal digits fails with an error.
C27_ExactOrError ==
  returned.step = "gweiToEthString" =>
    LET g == Trim(returned.value)
    IN IF Len(g) >= 1 /\ AllDigits(g)
       THEN returned.result.ok /\ ExactEthOf(returned.result.text, g)
       ELSE ~returned.result.ok

\* 32000000007 gwei between blanks is converted to 32.000000007
C27_Witness ==
  /\ returned.step = "gweiToEthString"
  /\ returned.value = <<" ", "3", "2">> \o Zeros(7) \o <<"0", "7", " ">>
  /\ returned.result.ok
  /\ returned.result.text = <<"3", "2", ".">> \o Zeros(8) \o <<"7">>

----------------------------------------------------------------------------
(* AprCalculationService, spot variant: the APR from one sample's rate *)

\* a computeApr that does not look at the rate
computeAprSpotAnyRate(accEthPerShare, priceEth, priceSsv) ==
  IF ~IsFinite(priceEth) \/ ~IsFinite(priceSsv) THEN Null
  ELSE
    LET ratePerShare == Div(BigToNumber(accEthPerShare), OneEther)
        priceRatio   == Div(priceEth, priceSsv)
        apr == Mul(Mul(Mul(ratePerShare, IntNum(SECONDS_PER_YEAR)), priceRatio),
                   IntNum(100))
    IN IF ~IsFinite(apr) THEN Null ELSE apr

\* computeApr of the spot variant: number | null
computeAprSpot(accEthPerShare, priceEth, priceSsv) ==
  IF ~IsFinite(priceEth) \/ ~IsFinite(priceSsv) THEN Null
  ELSE
    LET ratePerShare == Div(BigToNumber(accEthPerShare), OneEther)
    IN IF ~IsFinite(ratePerShare) \/ LeqZero(ratePerShare) THEN Null
       ELSE
         LET priceRatio == Div(priceEth, priceSsv)
             apr == Mul(Mul(Mul(ratePerShare, IntNum(SECONDS_PER_YEAR)), priceRatio),
                        IntNum(100))
         IN IF ~IsFinite(apr) THEN Null ELSE apr

\* Promise.all([getAccEthPerShare(), getPrices()]) settles; on success the
\* timestamp is taken, computeApr returns without an await and getProjectedApr
\* starts
FetchDoneSpot(c, indexResp, priceResp) ==
  /\ c.pc = "fetching"
  /\ viewsContract \/ ~indexResp.ok
  /\ LET index == getAccEthPerShare(viewsContract, indexResp)
         price == getSpotPrices(priceResp)
         c1    == [c EXCEPT !.accEthPerShare = index.value,
                            !.prices = [ethPrice |-> price.ethPrice,
                                        ssvPrice |-> price.ssvPrice],
                            !.timestamp = now]
         apr   == computeAprSpot(index.value, price.ethPrice, price.ssvPrice)
     IN IF ~index.ok \/ ~price.ok
        THEN Settle("FetchDone", c, [c EXCEPT !.pc = "done"],
                    (IF index.ok THEN {} ELSE {"index"}) \cup
                    (IF price.ok THEN {} ELSE {"price"}), {})
        ELSE Settle("FetchDone", c, AfterCompute(c1, [NullApr EXCEPT !.apr = apr]), {}, {})
  /\ UNCHANGED <<boot, viewsContract, now, store, collects>>

\* aprSampleRepository.save(sample) answers; the entity is created with
\* deltaIndex: null and deltaTime: null
SaveSpot(c) ==
  /\ c.pc = "saving"
  /\ LET c2     == [c EXCEPT !.pc = "done", !.calls.insert = @ + 1]
         sample == [timestamp |-> c.timestamp,
                    accEthPerShare |-> BigToString(c.accEthPerShare),
                    ethPrice |-> NumberToString(c.prices.ethPrice),
                    ssvPrice |-> NumberToString(c.prices.ssvPrice),
                    currentApr |-> IF c.aprResult.apr # Null
                                   THEN toFixed2(c.aprResult.apr) ELSE TextNull,
                    aprProjected |-> IF c.aprProjected # Null
                                     THEN toFixed2(c.aprProjected) ELSE TextNull,
                    deltaIndex |-> TextNull,
                    deltaTime |-> Null]
     IN IF InsertRefused(store, sample)
        THEN /\ store' = store
             /\ Settle("Save", c, c2, {"insert"}, {})
        ELSE /\ store' = InsertRow(store, sample)
             /\ Settle("Save", c, c2, {}, {sample})
  /\ UNCHANGED <<boot, viewsContract, now, collects>>

\* the index may also be 0, as the contract returns it before any reward
NextSpot ==
  \/ \E ok \in BOOLEAN : OnModuleInit(ok)
  \/ Start("collect")
  \/ \E c \in InFlight, i \in IndexResponses \cup {[ok |-> TRUE, value |-> Big(0, 0)]},
        r \in PriceResponses : FetchDoneSpot(c, i, r)
  \/ \E c \in InFlight, b \in ClustersResponses, v \in ValidatorsResponses, a \in BOOLEAN :
       BalancesDone(c, b, v, a)
  \/ \E c \in InFlight : SaveSpot(c)
  \/ Tick

SpecSpot == Init /\ [][NextSpot]_vars

\* accEthPerShare / 1e18 * SECONDS_PER_YEAR * (priceEth / priceSsv) * 100
SpotProduct(c) ==
  Mul(Mul(Mul(Div(BigToNumber(c.accEthPerShare), OneEther), IntNum(SECONDS_PER_YEAR)),
          Div(c.prices.ethPrice, c.prices.ssvPrice)),
      IntNum(100))

\* the calls that have their index and their prices
C28_Fetched == {c \in Calls : c.timestamp # NoDate}

\* C28: in the spot variant the result of computeApr is given by
\* accEthPerShare, priceEth and priceSsv alone, the table is not read: a
\* collect over an empty table can store a non-null currentApr; the result is
\* null exactly when a price is not finite, accEthPerShare <= 0 or the
\* product is not finite; and every sample stored has deltaIndex and deltaTime
\* null.
C28_SpotOnly ==
  /\ \A c \in C28_Fetched :
       /\ c.calls.read = 0
       /\ c.latest = {}
       /\ (c.aprResult.apr = Null) =
            (\/ ~IsFinite(c.prices.ethPrice)
             \/ ~IsFinite(c.prices.ssvPrice)
             \/ c.accEthPerShare.m <= 0
             \/ ~IsFinite(SpotProduct(c)))
       /\ c.aprResult.apr # Null => c.aprResult.apr = SpotProduct(c)
  /\ \A c, d \in C28_Fetched :
       (c.accEthPerShare = d.accEthPerShare /\ c.prices = d.prices) =>
         c.aprResult.apr = d.aprResult.apr
  /\ (returned.step = "Save" /\ returned.outcome = "ok") =>
       \A s \in returned.saved :
         /\ Persisted(s) \in store
         /\ (s.currentApr = TextNull) = (returned.c.aprResult.apr = Null)
         /\ s.deltaIndex = TextNull
         /\ s.deltaTime = Null
  /\ \A r \in store : r.deltaIndex = TextNull /\ r.deltaTime = Null

\* a collect over an empty table has stored a sample with a currentApr
C28_Witness ==
  /\ returned.step = "Save"
  /\ returned.outcome = "ok"
  /\ returned.before = {}
  /\ \E s \in returned.saved :
       /\ s.currentApr # TextNull
       /\ s.deltaIndex = TextNull
       /\ Persisted(s) \in store

\* a collect stores a null currentApr for an index of zero, and one for an
\* ssvPrice of zero
C28_ZeroIndexWitness ==
  /\ returned.step = "Save"
  /\ returned.outcome = "ok"
  /\ returned.c.accEthPerShare.m = 0
  /\ IsFinite(returned.c.prices.ssvPrice) /\ returned.c.prices.ssvPrice.n # 0
  /\ \E s \in returned.saved : s.currentApr = TextNull

----------------------------------------------------------------------------
(* AprCalculationService, network-fee variant: the APR from the network fee *)
(* and the effective balances                                               *)

BLOCKS_PER_YEAR == 2613400

EFFECTIVE_BALANCE_PER_VALIDATOR == 32

\* computeAprFromInputs:
\* ((F / 1e18) * (EB / 32) * B * P_ETH) / (S * P_SSV) * 100, number | null
computeAprFromInputs(networkFeeWei, effectiveBalanceEth, totalEligibleSsvStaked, priceEth, priceSsv) ==
  LET feeEth           == Div(BigToNumber(networkFeeWei), OneEther)
      effectiveBalance == StringToNumber(effectiveBalanceEth)
      IsNegative(x)    == x.k # "nan" /\ x.n < 0
  IN IF ~IsFinite(feeEth) \/ IsNegative(feeEth) THEN Null
     ELSE IF ~IsFinite(effectiveBalance) \/ IsNegative(effectiveBalance) THEN Null
     ELSE IF \/ ~IsFinite(priceEth) \/ ~IsFinite(priceSsv)
             \/ LeqZero(priceEth) \/ LeqZero(priceSsv) THEN Null
     ELSE
       LET denominator == Mul(totalEligibleSsvStaked, priceSsv)
       IN IF ~IsFinite(denominator) \/ LeqZero(denominator) THEN Null
          ELSE
            LET apr == Mul(Div(Mul(Mul(Mul(feeEth,
                                           Div(effectiveBalance,
                                               IntNum(EFFECTIVE_BALANCE_PER_VALIDATOR))),
                                       IntNum(BLOCKS_PER_YEAR)),
                                   priceEth),
                               denominator),
                           IntNum(100))
            IN IF ~IsFinite(apr) THEN Null ELSE apr

\* computeCurrentAndProjectedApr once its Promise.all has settled: a call
\* that failed is caught, and both results are null
computeCurrentAndProjectedApr(networkFeeWei, priceEth, priceSsv, totalResp, clustersResp, validatorsResp) ==
  IF ~totalResp.ok \/ ~clustersResp.ok \/ ~validatorsResp.ok
  THEN [apr |-> Null, aprProjected |-> Null]
  ELSE
    LET totalEligibleSsvStaked == StringToNumber(totalResp.value)
    IN IF ~IsFinite(totalEligibleSsvStaked) \/ LeqZero(totalEligibleSsvStaked)
       THEN [apr |-> Null, aprProjected |-> Null]
       ELSE [apr |-> computeAprFromInputs(networkFeeWei, clustersResp.value,
                                          totalEligibleSsvStaked, priceEth, priceSsv),
             aprProjected |-> computeAprFromInputs(networkFeeWei, validatorsResp.value,
                                                   totalEligibleSsvStaked, priceEth,
                                                   priceSsv)]

\* getNetworkFee: what the contract call ends with, in wei
FeeResponses ==
  {[ok |-> FALSE, value |-> Big(0, 0)],
   [ok |-> TRUE, value |-> Big(1, 9)]}

\* getTotalStaked: formatEther of the staked total
TotalStakedResponses ==
  {[ok |-> FALSE, value |-> <<>>],
   [ok |-> TRUE, value |-> <<"1", "0", "0", "0", ".", "0">>],
   [ok |-> TRUE, value |-> <<"0", ".", "0">>]}

\* collectAprSample up to its first await: the locals of the call, with the
\* fee call and the price call started and nothing answered
StartFee ==
  /\ boot = "ready"
  /\ BagCardinality(cycle) < NumProcs
  /\ collects < MaxCollects
  /\ collects' = collects + 1
  /\ LET unanswered == [ok |-> FALSE, value |-> <<>>]
     IN cycle' = cycle (+) SetToBag({
          [op |-> "collect", pc |-> "fetching",
           networkFeeWei |-> Big(0, 0),
           prices |-> [ethPrice |-> Null, ssvPrice |-> Null],
           timestamp |-> NoDate,
           totalStaked |-> unanswered, clusters |-> unanswered,
           validators |-> unanswered,
           apr |-> Null,
           aprProjected |-> Null,
           calls |-> [fee |-> 1, price |-> 1, totalStaked |-> 0, clusters |-> 0,
                      validators |-> 0, insert |-> 0]]})
  /\ returned' = NoReturn
  /\ UNCHANGED <<boot, viewsContract, now, store>>

\* Promise.all([getNetworkFee(), getPrices()]) settles; on success the
\* timestamp is taken and computeCurrentAndProjectedApr starts its three calls
FeeFetchDone(c, feeResp, priceResp) ==
  /\ c.pc = "fetching"
  /\ viewsContract \/ ~feeResp.ok
  /\ LET fee   == getAccEthPerShare(viewsContract, feeResp)
         price == getSpotPrices(priceResp)
     IN IF ~fee.ok \/ ~price.ok
        THEN Settle("FetchDone", c, [c EXCEPT !.pc = "done"],
                    (IF fee.ok THEN {} ELSE {"index"}) \cup
                    (IF price.ok THEN {} ELSE {"price"}), {})
        ELSE Settle("FetchDone", c,
                    [c EXCEPT !.networkFeeWei = fee.value,
                              !.prices = [ethPrice |-> price.ethPrice,
                                          ssvPrice |-> price.ssvPrice],
                              !.timestamp = now,
                              !.pc = "inputs",
                              !.calls.totalStaked = 1, !.calls.clusters = 1,
                              !.calls.validators = 1], {}, {})
  /\ UNCHANGED <<boot, viewsContract, now, store, collects>>

\* the Promise.all of getTotalStaked and the two balance calls settles
FeeInputsDone(c, totalResp, clustersResp, validatorsResp) ==
  /\ c.pc = "inputs"
  /\ LET pair == computeCurrentAndProjectedApr(c.networkFeeWei, c.prices.ethPrice,
                                               c.prices.ssvPrice, totalResp,
                                               clustersResp, validatorsResp)
     IN Settle("InputsDone", c,
               [c EXCEPT !.totalStaked = totalResp, !.clusters = clustersResp,
                         !.validators = validatorsResp,
                         !.apr = pair.apr, !.aprProjected = pair.aprProjected,
                         !.pc = "saving"], {}, {})
  /\ UNCHANGED <<boot, viewsContract, now, store, collects>>

\* aprSampleRepository.save(sample) answers: the entity as collectAprSample
\* creates it, and the row with its numeric columns in their scale
SaveFee(c) ==
  /\ c.pc = "saving"
  /\ LET c2     == [c EXCEPT !.pc = "done", !.calls.insert = 1]
         sample == [timestamp |-> c.timestamp,
                    networkFeeWei |-> BigToString(c.networkFeeWei),
                    ethPrice |-> NumberToString(c.prices.ethPrice),
                    ssvPrice |-> NumberToString(c.prices.ssvPrice),
                    currentApr |-> IF c.apr # Null THEN toFixed2(c.apr) ELSE TextNull,
                    aprProjected |-> IF c.aprProjected # Null
                                     THEN toFixed2(c.aprProjected) ELSE TextNull,
                    deltaIndex |-> TextNull,
                    deltaTime |-> Null]
         row    == [sample EXCEPT !.ethPrice = NumericColumn(@, 8),
                                  !.ssvPrice = NumericColumn(@, 8),
                                  !.currentApr = NumericColumn(@, 2),
                                  !.aprProjected = NumericColumn(@, 2)]
     IN IF InsertRefused(store, sample)
        THEN /\ store' = store
             /\ Settle("Save", c, c2, {"insert"}, {})
        ELSE /\ store' = store \cup {row}
             /\ Settle("Save", c, c2, {}, {sample})
  /\ UNCHANGED <<boot, viewsContract, now, collects>>

\* the table of this variant is empty when the process starts
InitFee ==
  /\ boot = "constructed"
  /\ viewsContract = FALSE
  /\ now = StartDate
  /\ store = {}
  /\ cycle = EmptyBag
  /\ returned = NoReturn
  /\ collects = 0

NextFee ==
  \/ \E ok \in BOOLEAN : OnModuleInit(ok)
  \/ StartFee
  \/ \E c \in InFlight, f \in FeeResponses, r \in PriceResponses : FeeFetchDone(c, f, r)
  \/ \E c \in InFlight, t \in TotalStakedResponses, b \in ClustersResponses,
        v \in ValidatorsResponses : FeeInputsDone(c, t, b, v)
  \/ \E c \in InFlight : SaveFee(c)
  \/ Tick

SpecFee == InitFee /\ [][NextFee]_vars

\* a call has stored its sample after its validators balance call failed, and
\* the fee, the prices, the staked total and the clusters balance it had give
\* a baseline
C29_ValidatorsFailed ==
  /\ returned.step = "Save"
  /\ returned.outcome = "ok"
  /\ returned.c.totalStaked.ok
  /\ returned.c.clusters.ok
  /\ ~returned.c.validators.ok
  /\ computeAprFromInputs(returned.c.networkFeeWei, returned.c.clusters.value,
                          StringToNumber(returned.c.totalStaked.value),
                          returned.c.prices.ethPrice, returned.c.prices.ssvPrice) # Null

\* C29: in the network-fee variant a failure of an effective-balance call
\* does not block the baseline: the baseline APR is still computed and stored
\* non-null, and only aprProjected is null.
C29_BaselineNotBlocked ==
  C29_ValidatorsFailed =>
    \A s \in returned.saved : s.currentApr # TextNull /\ s.aprProjected = TextNull

\* what the code does: the sample is stored, with both null
C29_BothNull ==
  C29_ValidatorsFailed =>
    \A s \in returned.saved :
      /\ \E r \in store : r.timestamp = s.timestamp
      /\ s.currentApr = TextNull
      /\ s.aprProjected = TextNull

\* with every call answered the sample has both
C29_BothStored ==
  /\ returned.step = "Save"
  /\ returned.outcome = "ok"
  /\ \E s \in returned.saved : s.currentApr # TextNull /\ s.aprProjected # TextNull

----------------------------------------------------------------------------
(* getCurrentApr called twice *)

\* the tables the two calls may find: the empty one, a sample taken a day
\* before on the second, and one taken TickMs into that second
BaselineStores ==
  InitialStores \cup
    {{[EarlierSample EXCEPT !.timestamp = MkDate(StartDate.dn - 1, TickMs)]}}

\* the clock readings of the two calls
ClockReadings == {MkDate(StartDate.dn, k * TickMs) : k \in 0..MaxTicks}

\* two calls one after the other, the feeds answering the same and the table
\* the same for both; a behaviour makes the pair of calls once
CurrentTwice(contractSet, indexResp, priceResp, rows, clustersResp, validatorsResp, started1, finished1, started2, finished2) ==
  /\ DateLE(started1, finished1)
  /\ DateLE(finished1, started2)
  /\ DateLE(started2, finished2)
  /\ returned' =
       [step |-> "getCurrentApr", rows |-> rows,
        contractSet |-> contractSet, index |-> indexResp, price |-> priceResp,
        clusters |-> clustersResp, validators |-> validatorsResp,
        started1 |-> started1, finished1 |-> finished1,
        started2 |-> started2, finished2 |-> finished2,
        first  |-> getCurrentApr(contractSet, indexResp, priceResp, rows,
                                 clustersResp, validatorsResp, started1, finished1),
        second |-> getCurrentApr(contractSet, indexResp, priceResp, rows,
                                 clustersResp, validatorsResp, started2, finished2)]
  /\ UNCHANGED <<boot, viewsContract, now, store, cycle, collects>>

NextCurrent ==
  /\ returned = NoReturn
  /\ \E contractSet \in BOOLEAN, indexResp \in IndexResponses, priceResp \in PriceResponses,
        rows \in BaselineStores,
        clustersResp \in ClustersResponses, validatorsResp \in ValidatorsResponses,
        started1 \in ClockReadings, finished1 \in ClockReadings,
        started2 \in ClockReadings, finished2 \in ClockReadings :
       CurrentTwice(contractSet, indexResp, priceResp, rows, clustersResp, validatorsResp,
                    started1, finished1, started2, finished2)

SpecCurrent == Init /\ [][NextCurrent]_vars

\* C11 as the spec states it: two calls of getCurrentApr with unchanged feed
\* values and an unchanged stored baseline return the same output (the same
\* apr, aprProjected and lastUpdated).
C11_Idempotent ==
  returned.step = "getCurrentApr" => returned.first = returned.second

\* the two readings are the same number of whole seconds after the baseline
C11_SameSecondsSince(rows, a, b) ==
  \A prev \in rows :
    (a.dn - prev.timestamp.dn) * 86400 + ((a.ms - prev.timestamp.ms) \div 1000)
      = (b.dn - prev.timestamp.dn) * 86400 + ((b.ms - prev.timestamp.ms) \div 1000)

\* the two readings fall in the same second of the clock
C11_SameSecond(a, b) == a.dn = b.dn /\ a.ms \div 1000 = b.ms \div 1000

\* C11, amended: two calls of getCurrentApr with unchanged feed values and an
\* unchanged stored baseline return the same apr and aprProjected when they
\* are made the same whole number of seconds after the baseline's timestamp,
\* and the same lastUpdated when they return in the same second of the clock;
\* a call that fails returns null both times.
C11_IdempotentWithinSecond ==
  returned.step = "getCurrentApr" =>
    /\ returned.first.null = returned.second.null
    /\ C11_SameSecondsSince(returned.rows, returned.started1, returned.started2) =>
         /\ returned.first.apr = returned.second.apr
         /\ returned.first.aprProjected = returned.second.aprProjected
    /\ (~returned.first.null /\ C11_SameSecond(returned.finished1, returned.finished2)) =>
         returned.first.lastUpdated = returned.second.lastUpdated

\* two calls half a second apart with a non-null apr, the same output
C11_Witness ==
  /\ returned.step = "getCurrentApr"
  /\ returned.started1 # returned.started2
  /\ returned.finished1 # returned.finished2
  /\ returned.first.apr # Null
  /\ returned.first.aprProjected # Null
  /\ returned.first = returned.second

----------------------------------------------------------------------------
(* The raw index through the table and back *)

\* the indexes tried are m * 10^z for these m and for z up to MaxZeros
Mantissas == {0, 1, 7, 12, 305, 987654321}

MaxZeros == 18

IndexValues == {Big(m, z) : m \in Mantissas, z \in 0..MaxZeros}

\* collectAprSample writes accEthPerShare.toString() to the numeric(78, 18)
\* column; a later computeApr parses what the row holds: the text as it was
\* written (the entity save() returned) or in the column's scale (a row read
\* from the table)
StoreAndParse(x, form) ==
  LET text   == BigToString(x)
      stored == IF form = "written" THEN text ELSE NumericColumn(text, 18)
  IN /\ returned' = [step |-> "StoreAndParse", x |-> x, form |-> form,
                     text |-> text, stored |-> stored,
                     parsed |-> parseWeiFromNumeric(stored)]
     /\ UNCHANGED <<boot, viewsContract, now, store, cycle, collects>>

NextRoundTrip ==
  \E x \in IndexValues, form \in {"written", "read"} : StoreAndParse(x, form)

SpecRoundTrip == Init /\ [][NextRoundTrip]_vars

\* C20: the raw index x that collectAprSample persists as x.toString(), and
\* that the row gives back as that text or as that text followed by a point
\* and eighteen zeros, is parsed back by parseWeiFromNumeric to exactly x.
C20_RoundTrip ==
  returned.step = "StoreAndParse" =>
    /\ returned.parsed.ok
    /\ returned.parsed.value = returned.x
    /\ returned.form = "read" =>
         /\ Len(returned.stored) = Len(returned.text) + 19
         /\ SubSeq(returned.stored, 1, Len(returned.text)) = returned.text
         /\ returned.stored[Len(returned.text) + 1] = "."

\* 1e18, read from the table as 1000000000000000000.000000000000000000
C20_Witness ==
  /\ returned.step = "StoreAndParse"
  /\ returned.x = Big(1, 18)
  /\ returned.form = "read"
  /\ Len(returned.stored) = 38
  /\ returned.parsed.value = Big(1, 18)

----------------------------------------------------------------------------
(* computeApr on integers of any size.  The definitions above keep every     *)
(* integer in one machine word, which an index of nineteen digits does not   *)
(* fit.  Here a natural number is the sequence of its decimal digits, least  *)
(* significant first (the empty sequence for 0), a number is an unreduced    *)
(* fraction of two of them, and computeApr is followed line by line again.   *)

RECURSIVE WideTrim(_)
WideTrim(a) ==
  IF a # <<>> /\ a[Len(a)] = 0 THEN WideTrim(SubSeq(a, 1, Len(a) - 1)) ELSE a

\* BigInt(text) for a run of decimal digits
WideOfText(s) == WideTrim([i \in 1..Len(s) |-> DigitVal(s[Len(s) + 1 - i])])

\* bigint.toString()
WideToText(a) ==
  IF a = <<>> THEN <<"0">> ELSE [i \in 1..Len(a) |-> DigitChar[a[Len(a) + 1 - i] + 1]]

RECURSIVE WideOfNat(_)
WideOfNat(n) == IF n = 0 THEN <<>> ELSE <<n % 10>> \o WideOfNat(n \div 10)

\* a * 10^k
WideShift(a, k) == IF a = <<>> THEN <<>> ELSE [i \in 1..k |-> 0] \o a

WideLess(a, b) ==
  \/ Len(a) < Len(b)
  \/ /\ Len(a) = Len(b)
     /\ \E i \in 1..Len(a) : a[i] < b[i] /\ \A j \in (i + 1)..Len(a) : a[j] = b[j]

WideLeq(a, b) == a = b \/ WideLess(a, b)

\* a - b for a >= b
RECURSIVE WideSubBorrow(_, _, _)
WideSubBorrow(a, b, borrow) ==
  IF a = <<>> THEN <<>>
  ELSE LET v == Head(a) - (IF b = <<>> THEN 0 ELSE Head(b)) - borrow
       IN <<IF v < 0 THEN v + 10 ELSE v>>
          \o WideSubBorrow(Tail(a), IF b = <<>> THEN <<>> ELSE Tail(b),
                           IF v < 0 THEN 1 ELSE 0)

WideSub(a, b) == WideTrim(WideSubBorrow(a, b, 0))

\* the sum of a[i] * b[j] over i + j = k + 1: what a * b has at 10^(k-1)
\* before the carries (a bag's cardinality is the sum of its counts)
WideCoefficient(a, b, k) ==
  LET pairs == {i \in 1..Len(a) : k + 1 - i \in 1..Len(b) /\ a[i] * b[k + 1 - i] > 0}
  IN BagCardinality([i \in pairs |-> a[i] * b[k + 1 - i]])

\* the digits of the number that has c[k] at 10^(k-1)
RECURSIVE WideCarry(_, _)
WideCarry(c, carry) ==
  IF c = <<>> THEN WideOfNat(carry)
  ELSE LET v == Head(c) + carry
       IN <<v % 10>> \o WideCarry(Tail(c), v \div 10)

WideMul(a, b) ==
  IF a = <<>> \/ b = <<>> THEN <<>>
  ELSE WideTrim(WideCarry([k \in 1..(Len(a) + Len(b) - 1) |-> WideCoefficient(a, b, k)], 0))

\* a number that is not negative: the fraction num / den, or k = "nonfinite"
\* for NaN and Infinity, which Number.isFinite does not tell apart
WideNonFinite == [k |-> "nonfinite", num |-> <<>>, den |-> <<1>>]

WideNum(num, den) == [k |-> "fin", num |-> num, den |-> den]

WideInt(n) == WideNum(WideOfNat(n), <<1>>)

\* a price read from JSON: n * 10^e, not negative
WideOfNumber(x) ==
  IF x.k # "fin" THEN WideNonFinite
  ELSE IF x.e >= 0 THEN WideNum(WideShift(WideOfNat(x.n), x.e), <<1>>)
  ELSE WideNum(WideOfNat(x.n), WideShift(<<1>>, -x.e))

\* a * b
WideTimes(a, b) ==
  IF a.k # "fin" \/ b.k # "fin" THEN WideNonFinite
  ELSE WideNum(WideMul(a.num, b.num), WideMul(a.den, b.den))

\* b / a, the operands the other way round
WideOverSwapped(a, b) ==
  IF a.k # "fin" \/ b.k # "fin" \/ a.num = <<>> THEN WideNonFinite
  ELSE WideNum(WideMul(b.num, a.den), WideMul(b.den, a.num))

\* a / b (a division by zero is not finite)
WideOver(a, b) ==
  IF a.k # "fin" \/ b.k # "fin" \/ b.num = <<>> THEN WideNonFinite
  ELSE WideNum(WideMul(a.num, b.den), WideMul(a.den, b.num))

\* a <= b, a < b for finite a and b
WideNumLeq(a, b) == WideLeq(WideMul(a.num, b.den), WideMul(b.num, a.den))

WideNumLess(a, b) == WideLess(WideMul(a.num, b.den), WideMul(b.num, a.den))

\* parseWeiFromNumeric
parseWeiWide(value) ==
  LET trimmed == Trim(value)
      p       == IndexOf(trimmed, ".")
      whole   == IF p = 0 THEN trimmed ELSE SubSeq(trimmed, 1, p - 1)
      frac    == IF p = 0 THEN <<>> ELSE SubSeq(trimmed, p + 1, Len(trimmed))
      matches == /\ Len(whole) >= 1
                 /\ AllDigits(whole)
                 /\ (p # 0 => Len(frac) >= 1 /\ AllDigits(frac))
  IN IF matches THEN [ok |-> TRUE, value |-> WideOfText(whole)]
     ELSE [ok |-> FALSE, value |-> <<>>]

\* Number(deltaIndex) / 1e18 / deltaTimeSeconds
ratePerSecondWide(deltaIndex, deltaTimeSeconds) ==
  WideOver(WideOver(WideNum(deltaIndex, <<1>>), WideNum(WideShift(<<1>>, 18), <<1>>)),
           WideInt(deltaTimeSeconds))

NullAprWide == [apr |-> WideNonFinite, deltaIndex |-> TextNull, deltaTime |-> Null]

\* computeApr; accEthPerShare is the bigint read, priceEth and priceSsv are
\* numbers that are not negative; a null apr is written WideNonFinite
computeAprWide(accEthPerShare, priceEth, priceSsv, timestamp, latest) ==
  IF ~IsFinite(priceEth) \/ ~IsFinite(priceSsv) THEN NullAprWide
  ELSE IF latest = {} THEN NullAprWide
  ELSE
    LET latestSample == CHOOSE r \in latest : TRUE
        previous     == parseWeiWide(latestSample.accEthPerShare)
    IN IF ~previous.ok THEN NullAprWide
       \* deltaIndex <= 0n, asked before the subtraction
       ELSE IF WideLeq(accEthPerShare, previous.value) THEN NullAprWide
       ELSE
         LET deltaIndex == WideSub(accEthPerShare, previous.value)
             deltaTimeSeconds ==
               FloorSecondsBetween(timestamp, latestSample.timestamp)
         IN IF deltaTimeSeconds <= 0 THEN NullAprWide
            ELSE
              LET priceRatio    == WideOver(WideOfNumber(priceEth), WideOfNumber(priceSsv))
                  ratePerSecond == ratePerSecondWide(deltaIndex, deltaTimeSeconds)
                  apr == WideTimes(WideTimes(WideTimes(ratePerSecond,
                                                       WideInt(SECONDS_PER_YEAR)),
                                             priceRatio), WideInt(100))
              IN IF apr.k # "fin" THEN NullAprWide
                 ELSE [apr |-> apr,
                       deltaIndex |-> WideToText(deltaIndex),
                       deltaTime |-> IntNum(deltaTimeSeconds)]

(* One computeApr against one stored sample *)

\* texts of raw indices: 1e18, the same and 987654321000000 more, one over
\* that, one under 1e18, and 2e11
IndexTexts ==
  {<<"1">> \o Zeros(18),
   NatToText(1000) \o NatToText(987654321) \o Zeros(6),
   NatToText(1000) \o NatToText(987654321) \o Zeros(5) \o <<"1">>,
   NatToText(999999999) \o NatToText(999999999),
   <<"2">> \o Zeros(11)}

\* texts of the index of the stored sample: 1e18 and 1e11
StoredIndexTexts == {<<"1">> \o Zeros(18), <<"1">> \o Zeros(11)}

\* prices: 2450.50 and 3000 for ETH; 45.20, 7 and 0 for SSV
EthPrices == {Fin(24505, 1, -1), Fin(3, 1, 3)}

SsvPrices == {Fin(452, 1, -1), Fin(7, 1, 0), IntNum(0)}

\* the time from the stored sample to the collect, in milliseconds
GapsMs == {0, TickMs, 43200000, 86400000, 86400000 + TickMs}

\* the stored sample, its index as the numeric(78, 18) column returns it
StoredSample(indexText) ==
  [EarlierSample EXCEPT !.accEthPerShare = NumericColumn(indexText, 18)]

ComputeOnce(indexText, storedText, priceEth, priceSsv, gapMs) ==
  LET latestSample == StoredSample(storedText)
      timestamp    == MkDate(latestSample.timestamp.dn, latestSample.timestamp.ms + gapMs)
  IN /\ returned' = [step |-> "computeApr",
                     accEthPerShare |-> indexText,
                     priceEth |-> priceEth,
                     priceSsv |-> priceSsv,
                     timestamp |-> timestamp,
                     latest |-> latestSample,
                     result |-> computeAprWide(WideOfText(indexText), priceEth,
                                               priceSsv, timestamp, {latestSample})]
     /\ UNCHANGED <<boot, viewsContract, now, store, cycle, collects>>

NextScenario ==
  /\ returned = NoReturn
  /\ \E indexText \in IndexTexts, storedText \in StoredIndexTexts,
        priceEth \in EthPrices, priceSsv \in SsvPrices, gapMs \in GapsMs :
       ComputeOnce(indexText, storedText, priceEth, priceSsv, gapMs)

SpecScenario == Init /\ [][NextScenario]_vars

\* x is m * 10^-places when rounded to that many decimal places
WideAbout(x, m, places) ==
  /\ x.k = "fin"
  /\ WideNumLeq(WideNum(WideOfNat(2 * m - 1), WideShift(<<2>>, places)), x)
  /\ WideNumLess(x, WideNum(WideOfNat(2 * m + 1), WideShift(<<2>>, places)))

\* the scenario of the claim: index 1e18 stored at T0, index
\* 1000987654321000000 read at T0 + 86400 s, ETH at 2450.50 and SSV at 45.20
C19_Scenario ==
  /\ returned.step = "computeApr"
  /\ returned.latest.accEthPerShare = NumericColumn(<<"1">> \o Zeros(18), 18)
  /\ returned.accEthPerShare = NatToText(1000) \o NatToText(987654321) \o Zeros(6)
  /\ returned.priceEth = Fin(24505, 1, -1)
  /\ returned.priceSsv = Fin(452, 1, -1)
  /\ returned.timestamp = MkDate(returned.latest.timestamp.dn + 1,
                                 returned.latest.timestamp.ms)

C19_RatePerSecond ==
  ratePerSecondWide(WideOfText(returned.result.deltaIndex), 86400)

\* C19 as stated: in the scenario deltaIndex is 987654321000000, the rate per
\* second is 1.1427e-8 to the five digits given and the APR is 1958.5 to the
\* one decimal given.
C19_ScenarioFigures ==
  C19_Scenario =>
    /\ returned.result.deltaIndex = NatToText(987654321) \o Zeros(6)
    /\ returned.result.deltaTime = IntNum(86400)
    /\ WideAbout(C19_RatePerSecond, 11427, 12)
    /\ WideAbout(returned.result.apr, 19585, 1)

\* C19, amended: in the scenario deltaIndex is 987654321000000, the rate per
\* second is 1.1431e-8 to five digits and the APR is 1954.40 to two decimals.
C19_ScenarioExact ==
  C19_Scenario =>
    /\ returned.result.deltaIndex = NatToText(987654321) \o Zeros(6)
    /\ returned.result.deltaTime = IntNum(86400)
    /\ WideAbout(C19_RatePerSecond, 11431, 12)
    /\ WideAbout(returned.result.apr, 195440, 2)

C19_Witness ==
  /\ C19_Scenario
  /\ returned.result.apr.k = "fin"
  /\ returned.result.deltaIndex # TextNull

\* where the integers fit a machine word, computeAprWide and computeApr agree
FitsWord(text) == Len(text) <= 12 /\ \A i \in 2..Len(text) : text[i] = "0"

WideAgreesWithComputeApr ==
  (/\ returned.step = "computeApr"
   /\ FitsWord(returned.accEthPerShare)
   /\ returned.latest.accEthPerShare \in {NumericColumn(t, 18) : t \in {s \in StoredIndexTexts : FitsWord(s)}}
   /\ returned.priceEth = Fin(3, 1, 3)
   /\ returned.priceSsv \in {Fin(7, 1, 0), IntNum(0)})
  => LET narrow == computeApr(Big(DigitVal(returned.accEthPerShare[1]),
                                  Len(returned.accEthPerShare) - 1),
                              returned.priceEth, returned.priceSsv,
                              returned.timestamp, {returned.latest})
         wide   == returned.result
     IN /\ narrow.deltaIndex = wide.deltaIndex
        /\ narrow.deltaTime = wide.deltaTime
        /\ (narrow.apr = Null) = (wide.apr.k # "fin")
        /\ narrow.apr # Null =>
             /\ WideNumLeq(WideOver(WideOfNumber([narrow.apr EXCEPT !.d = 1]),
                                    WideInt(narrow.apr.d)), wide.apr)
             /\ WideNumLeq(wide.apr,
                           WideOver(WideOfNumber([narrow.apr EXCEPT !.d = 1]),
                                    WideInt(narrow.apr.d)))

----------------------------------------------------------------------------
(* computeAprProjected on its own *)

AprInputs == {Null, IntNum(0), IntNum(7), Fin(3285, 1, -1)}

BalanceTexts ==
  {<<"1", "6">>, <<"6", "4">>, <<"0">>, <<"-", "5">>, <<"x">>, TextInfinity}

ApplyProjected(apr, clusters, validators) ==
  /\ returned' = [step |-> "computeAprProjected", apr |-> apr,
                  clusters |-> clusters, validators |-> validators,
                  result |-> computeAprProjected(apr, clusters, validators)]
  /\ UNCHANGED <<boot, viewsContract, now, store, cycle, collects>>

NextProjected ==
  \E apr \in AprInputs, clusters \in BalanceTexts, validators \in BalanceTexts :
    ApplyProjected(apr, clusters, validators)

SpecProjected == Init /\ [][NextProjected]_vars

\* C7: computeAprProjected returns apr x (clustersEffectiveBalance /
\* validatorsEffectiveBalance) when apr is not null, both balances read as
\* finite numbers and validatorsEffectiveBalance is above 0; it returns null
\* when apr is null, when a balance does not read as a finite number, and
\* when validatorsEffectiveBalance is 0 or below.
C7_ProjectedFormula ==
  returned.step = "computeAprProjected" =>
    LET clusters   == StringToNumber(returned.clusters)
        validators == StringToNumber(returned.validators)
    IN IF /\ returned.apr # Null
          /\ IsFinite(clusters)
          /\ IsFinite(validators)
          /\ validators.n > 0
       THEN /\ returned.result # Null
            /\ returned.result = Div(Mul(returned.apr, clusters), validators)
       ELSE returned.result = Null

C7_Witness ==
  /\ returned.step = "computeAprProjected"
  /\ returned.apr = Fin(3285, 1, -1)
  /\ returned.clusters = <<"1", "6">>
  /\ returned.validators = <<"6", "4">>
  /\ returned.result = Fin(82125, 1, -3)

=============================================================================
